---- MODULE Spec2Model ----
(***************************************************************************)
(* Command Gateway of ha-wyoming-realtime-shim:                            *)
(*   SecurityController (src/security.ts)  - policy engine and audit log   *)
(*   HABridge (ha-bridge.ts)               - protocol client and dispatch  *)
(* Strings that the code transforms (entity ids, services, messages) are   *)
(* sequences of tokens: a token is a run of ordinary characters or one     *)
(* special character (".", "_", ";", ...).                                 *)
(***************************************************************************)
EXTENDS Integers, Sequences, FiniteSets, TLC

(***************************************************************************)
(* Bounds of the model                                                     *)
(***************************************************************************)
MaxCalls == 2
\* calls made of the controller directly: enough to fill the audit log and go
\* past its capacity
MaxInserts == 1002
\* listeners added to the bridge, and event frames passed on to them
MaxListeners == 2
MaxFrames == 2
\* calls of updateConfig
MaxUpdates == 2
\* calls of connect() on one bridge
MaxConnects == 2
\* audit entries after which the controller is not asked again
MaxAudited == 2
\* frames the 'message' handler cannot read, sent by the remote controller
MaxMalformed == 1
\* sessions the control API creates
MaxSessions == 5

(***************************************************************************)
(* Program constants                                                       *)
(***************************************************************************)
InitialMessageId == 1
DefaultTimeout == 5000
AuditCapacity == 1000
DefaultAuditLimit == 100
ListThreshold == 5
MinSafeTemperature == 10
MaxSafeTemperature == 30
MinTimeoutMs == 1000
MaxTimeoutMs == 300000

(***************************************************************************)
(* Values                                                                  *)
(***************************************************************************)
\* entity_id?: string | string[]
NoEntity == [kind |-> "undefined", str |-> <<>>, arr |-> <<>>]
StrEntity(s) == [kind |-> "string", str |-> s, arr |-> <<>>]
ArrEntity(a) == [kind |-> "array", str |-> <<>>, arr |-> a]

\* data?: Record<string, unknown>; only data.temperature is ever read
NoData == [present |-> FALSE, hasTemperature |-> FALSE, temperature |-> 0]
TempData(t) == [present |-> TRUE, hasTemperature |-> TRUE, temperature |-> t]

LightKitchen == <<"light", ".", "kitchen">>
LightBedroom == <<"light", ".", "bedroom">>
LockFrontDoor == <<"lock", ".", "front", "_", "door">>
LightKitchenInjected == <<"light", ".", "kitchen", ";", "reboot">>
EmptyString == <<>>

TurnOn == <<"turn", "_", "on">>
TurnOff == <<"turn", "_", "off">>
Unlock == <<"unlock">>
OpenCover == <<"open", "_", "cover">>
AlarmDisarm == <<"alarm", "_", "disarm">>
SetTemperature == <<"set", "_", "temperature">>

\* JavaScript truthiness of serviceCall.entity_id: undefined and '' are falsy,
\* every array (also the empty one) is truthy
Truthy(entity_id) ==
  \/ entity_id.kind = "array"
  \/ entity_id.kind = "string" /\ entity_id.str # EmptyString

ServiceCall(domain, service, entity_id, data, confirmed) ==
  [domain |-> domain, service |-> service, entity_id |-> entity_id,
   data |-> data, confirmed |-> confirmed]

SecurityConfig(domains, whitelist, confirm) ==
  [allowedDomains |-> domains, entityWhitelist |-> whitelist,
   confirmHighRiskActions |-> confirm]

(***************************************************************************)
(* SecurityController: pure helpers                                        *)
(***************************************************************************)
HighRiskDomains == {"alarm_control_panel", "lock", "cover", "climate", "vacuum"}
HighRiskActions == {TurnOff, Unlock, OpenCover, AlarmDisarm}
MetaChars == {";", "&", "|", "BACKTICK", "$", "(", ")", "{", "}", "[", "]", "\\"}

\* String.prototype.replace(from, to) with a string pattern: first occurrence only
ReplaceFirst(s, from, to) ==
  LET hits == {i \in 1..Len(s) : s[i] = from}
      k == IF hits = {} THEN 0 ELSE CHOOSE i \in hits : \A j \in hits : i <= j
  IN [i \in 1..Len(s) |-> IF i = k THEN to ELSE s[i]]

\* replace(/_/g, ' ')
ReplaceAllUnderscores(s) == [i \in 1..Len(s) |-> IF s[i] = "_" THEN " " ELSE s[i]]

\* replace(/^[^.]+\./, ''): drops the leading run of non-dot characters and the dot
StripDomainPrefix(s) ==
  LET dots == {i \in 1..Len(s) : s[i] = "."}
      k == IF dots = {} THEN 0 ELSE CHOOSE i \in dots : \A j \in dots : i <= j
  IN IF k > 1 THEN SubSeq(s, k + 1, Len(s)) ELSE s

isHighRiskAction_listOfFive(serviceCall) ==
  \/ serviceCall.domain \in HighRiskDomains
  \/ serviceCall.service \in HighRiskActions
  \/ serviceCall.entity_id.kind = "string" /\ serviceCall.entity_id.str = <<"all">>
  \/ serviceCall.entity_id.kind = "array" /\ Len(serviceCall.entity_id.arr) >= ListThreshold

isHighRiskAction(serviceCall) ==
  \/ serviceCall.domain \in HighRiskDomains
  \/ serviceCall.service \in HighRiskActions
  \/ serviceCall.entity_id.kind = "string" /\ serviceCall.entity_id.str = <<"all">>
  \/ serviceCall.entity_id.kind = "array" /\ Len(serviceCall.entity_id.arr) > ListThreshold
  \/ /\ serviceCall.service = SetTemperature
     /\ serviceCall.data.present
     /\ serviceCall.data.hasTemperature
     /\ serviceCall.data.temperature # 0
     /\ \/ serviceCall.data.temperature < MinSafeTemperature
        \/ serviceCall.data.temperature > MaxSafeTemperature

generateConfirmationPrompt(serviceCall) ==
  LET entity_id == serviceCall.entity_id
      spoken == ReplaceFirst(serviceCall.service, "_", " ")
      entityName ==
        IF Truthy(entity_id) /\ entity_id.kind = "string"
        THEN ReplaceAllUnderscores(StripDomainPrefix(entity_id.str))
        ELSE <<"device">>
  IN IF entity_id.kind = "string" /\ entity_id.str = <<"all">>
     THEN <<"This will ">> \o spoken \o <<" ALL ", serviceCall.domain, " devices. Are you sure?">>
     ELSE IF entity_id.kind = "array" /\ Len(entity_id.arr) > 1
     THEN <<"This will ">> \o spoken
            \o <<" ", ToString(Len(entity_id.arr)), " ", serviceCall.domain, " devices. Are you sure?">>
     ELSE IF serviceCall.service = Unlock
     THEN <<"This will unlock the ">> \o entityName \o <<". Are you sure?">>
     ELSE IF serviceCall.service = AlarmDisarm
     THEN <<"This will disarm the ">> \o entityName \o <<". Are you sure?">>
     ELSE IF serviceCall.service = OpenCover
     THEN <<"This will open the ">> \o entityName \o <<". Are you sure?">>
     ELSE <<"This will ">> \o spoken \o <<" the ">> \o entityName \o <<". Are you sure?">>

\* replace(/[...]/g, '') over the class of MetaChars
sanitizeEntityId(entityId) == SelectSeq(entityId, LAMBDA t : t \notin MetaChars)

\* sanitizeEntityId is handed serviceCall.entity_id "as string"; an array has no
\* replace method, so the call throws a TypeError
sanitizeThrows(serviceCall) ==
  Truthy(serviceCall.entity_id) /\ serviceCall.entity_id.kind = "array"

(***************************************************************************)
(* SecurityController: audit log                                           *)
(***************************************************************************)
\* The timestamp of an entry is not modelled.
AuditEntry(action, violation_type, serviceCall, entity_id, allowed, confirmed) ==
  [action |-> action, violation_type |-> violation_type,
   domain |-> serviceCall.domain, service |-> serviceCall.service,
   entity_id |-> entity_id, allowed |-> allowed, confirmed |-> confirmed]

SliceLast_first(entries, n) ==
  IF Len(entries) > n THEN SubSeq(entries, 1, n) ELSE entries

\* slice(-n) of an array, n > 0
SliceLast(entries, n) ==
  IF Len(entries) > n THEN SubSeq(entries, Len(entries) - n + 1, Len(entries)) ELSE entries

addAuditEntry(entries, entry) ==
  LET pushed == Append(entries, entry)
  IN IF Len(pushed) > AuditCapacity THEN SliceLast(pushed, AuditCapacity) ELSE pushed

RECURSIVE addAuditEntries(_, _)
addAuditEntries(entries, new) ==
  IF new = <<>> THEN entries
  ELSE addAuditEntries(addAuditEntry(entries, Head(new)), Tail(new))

\* Array.prototype.slice(start): a negative start counts from the end, and
\* slice(-0) is slice(0)
Slice(entries, start) ==
  LET from == IF start < 0
              THEN (IF Len(entries) + start > 0 THEN Len(entries) + start ELSE 0)
              ELSE (IF start < Len(entries) THEN start ELSE Len(entries))
  IN SubSeq(entries, from + 1, Len(entries))

\* getAuditLog(limit = 100): return this.auditEntries.slice(-limit)
getAuditLog(entries, limit) == Slice(entries, 0 - limit)

(***************************************************************************)
(* SecurityController.validateServiceCall                                  *)
(* The result is the SecurityValidation returned and the audit entries the *)
(* call appended, in order.                                                *)
(***************************************************************************)
NoSanitized == [present |-> FALSE, str |-> <<>>]

Validation(allowed, requiresConfirmation, reason, confirmationPrompt, sanitizedEntityId) ==
  [allowed |-> allowed, requiresConfirmation |-> requiresConfirmation,
   reason |-> reason, confirmationPrompt |-> confirmationPrompt,
   sanitizedEntityId |-> sanitizedEntityId]

DomainReason(domain) == <<"Domain \"", domain, "\" not allowed">>
EntityReason(entityId) == <<"Entity \"">> \o entityId \o <<"\" not allowed">>
ConfirmationReason == <<"Confirmation required for high-risk action">>
ValidationErrorReason == <<"Validation error: ", "entityId.replace is not a function">>

\* for (const entityId of entityIds) with return at the first id not in the list
entityIdsOf(entity_id) ==
  IF entity_id.kind = "array" THEN entity_id.arr ELSE <<entity_id.str>>

FirstNotAllowed_headOnly(config, entityIds) ==
  IF entityIds # <<>> /\ entityIds[1] \notin config.entityWhitelist THEN 1 ELSE 0

FirstNotAllowed_last(config, entityIds) ==
  LET bad == {i \in 1..Len(entityIds) : entityIds[i] \notin config.entityWhitelist}
  IN IF bad = {} THEN 0 ELSE CHOOSE i \in bad : \A j \in bad : i >= j

FirstNotAllowed(config, entityIds) ==
  LET bad == {i \in 1..Len(entityIds) : entityIds[i] \notin config.entityWhitelist}
  IN IF bad = {} THEN 0 ELSE CHOOSE i \in bad : \A j \in bad : i <= j

domainAllowed_skipped(config, serviceCall) == TRUE

domainAllowed(config, serviceCall) == serviceCall.domain \in config.allowedDomains

entityCheckApplies(config, serviceCall) ==
  config.entityWhitelist # {} /\ Truthy(serviceCall.entity_id)

validateServiceCall(config, serviceCall) ==
  IF ~domainAllowed(config, serviceCall)
  THEN [validation |-> Validation(FALSE, FALSE, DomainReason(serviceCall.domain), <<>>, NoSanitized),
        appended |-> <<AuditEntry("security_violation", "domain_not_allowed", serviceCall,
                                  serviceCall.entity_id, FALSE, FALSE)>>]
  ELSE IF /\ entityCheckApplies(config, serviceCall)
          /\ FirstNotAllowed(config, entityIdsOf(serviceCall.entity_id)) # 0
  THEN LET ids == entityIdsOf(serviceCall.entity_id)
           entityId == ids[FirstNotAllowed(config, ids)]
       IN [validation |-> Validation(FALSE, FALSE, EntityReason(entityId), <<>>, NoSanitized),
           appended |-> <<AuditEntry("security_violation", "entity_not_allowed", serviceCall,
                                     StrEntity(entityId), FALSE, FALSE)>>]
  ELSE LET needsConfirmation == isHighRiskAction(serviceCall) /\ config.confirmHighRiskActions
           honored == IF needsConfirmation /\ serviceCall.confirmed
                      THEN <<AuditEntry("high_risk_confirmed", "none", serviceCall,
                                        serviceCall.entity_id, TRUE, TRUE)>>
                      ELSE <<>>
       IN IF needsConfirmation /\ ~serviceCall.confirmed
          THEN [validation |-> Validation(FALSE, TRUE, ConfirmationReason,
                                          generateConfirmationPrompt(serviceCall), NoSanitized),
                appended |-> <<>>]
          ELSE IF sanitizeThrows(serviceCall)
          THEN \* catch: validation.allowed is still false
               [validation |-> Validation(FALSE, FALSE, ValidationErrorReason, <<>>, NoSanitized),
                appended |-> honored]
          ELSE [validation |->
                  Validation(TRUE, FALSE, <<>>, <<>>,
                             IF Truthy(serviceCall.entity_id)
                             THEN [present |-> TRUE,
                                   str |-> sanitizeEntityId(serviceCall.entity_id.str)]
                             ELSE NoSanitized),
                appended |-> honored \o
                  <<AuditEntry("service_call_validation", "none", serviceCall,
                               serviceCall.entity_id, TRUE, FALSE)>>]

(***************************************************************************)
(* Inputs                                                                  *)
(***************************************************************************)
Configs ==
  { SecurityConfig({"light", "lock"}, {}, TRUE),
    SecurityConfig({"light", "lock"}, {LightKitchen, LockFrontDoor}, TRUE),
    SecurityConfig({"light"}, {LightKitchen}, FALSE) }

Commands ==
  { ServiceCall("light", TurnOn, StrEntity(LightKitchen), NoData, FALSE),
    ServiceCall("light", TurnOn, StrEntity(LightBedroom), NoData, FALSE),
    ServiceCall("light", TurnOn, StrEntity(EmptyString), NoData, FALSE),
    ServiceCall("light", TurnOn, StrEntity(LightKitchenInjected), NoData, FALSE),
    ServiceCall("light", TurnOn, ArrEntity(<<LightKitchen, LightBedroom>>), NoData, FALSE),
    ServiceCall("switch", TurnOn, StrEntity(LightBedroom), NoData, FALSE),
    ServiceCall("lock", Unlock, StrEntity(LockFrontDoor), NoData, FALSE),
    ServiceCall("lock", Unlock, StrEntity(LockFrontDoor), NoData, TRUE),
    ServiceCall("lock", Unlock, ArrEntity(<<LockFrontDoor>>), NoData, FALSE),
    ServiceCall("lock", Unlock, ArrEntity(<<LockFrontDoor>>), NoData, TRUE) }

\* the commands of the protocol client's specification
ClientCommands ==
  { ServiceCall("light", TurnOn, StrEntity(LightKitchen), NoData, FALSE) }

\* options.timeout of callService: 0 stands for "not given"
TimeoutOptions == {0}

\* frames the remote controller may put on a socket
ResultIds == 0..(MaxCalls + 1)
UnknownError == <<"Unknown error">>
RemoteMessages == {<<"Service not found">>, <<"Confirmation required for high-risk action">>}
ResultPayload == <<"context">>

\* message.event of a frame: absent, or a body with its event_type
NoEvent == [present |-> FALSE, event_type |-> ""]
EventBody(event_type) == [present |-> TRUE, event_type |-> event_type]

Frame(type, id, success, error, result, event) ==
  [type |-> type, id |-> id, success |-> success, error |-> error, result |-> result,
   event |-> event]

\* an event frame with no body, and one of an event type handleEvent does not know
InboundFrames ==
  {Frame(t, 0, FALSE, <<>>, <<>>, NoEvent) :
      t \in {"auth_required", "auth_ok", "auth_invalid", "event", "malformed"}}
  \cup {Frame("event", 0, FALSE, <<>>, <<>>, EventBody("zha_event"))}
  \cup {Frame("result", i, TRUE, <<>>, ResultPayload, NoEvent) : i \in ResultIds}
  \cup {Frame("result", i, FALSE, e, <<>>, NoEvent) :
           i \in ResultIds, e \in RemoteMessages \cup {<<>>}}

\* the event frames handleEvent passes on
EventTypes == {"state_changed", "hue_event"}
EventFrames == {Frame("event", 0, FALSE, <<>>, <<>>, EventBody(t)) : t \in EventTypes}

(***************************************************************************)
(* State                                                                   *)
(***************************************************************************)
VARIABLES
  config,           \* SecurityController.config
  auditEntries,     \* SecurityController.auditEntries
  auditPushed,      \* number of auditEntries.push calls so far
  sockets,          \* the WS objects created by connect(), with the promise and
                    \* the once-listeners of the connect() call that created each
  ws,               \* HABridge.ws: index into sockets, 0 for undefined
  connected,        \* HABridge.connected
  reconnecting,     \* HABridge.reconnecting
  messageId,        \* HABridge.messageId
  pendingRequests,  \* HABridge.pendingRequests: id -> the call holding resolve/reject
  calls,            \* the requests made of the bridge, with their promise
  issued,           \* the ids taken from messageId, in order
  sent,             \* the frames written by ws.send, in order
  now,              \* the clock, in ms
  recent,           \* what getAuditLog returned, if it was the last call on the controller
  verdict,          \* what validateServiceCall returned to its last direct caller
  listeners,        \* EventEmitter listeners of 'state_changed' and 'hue_event', in order
  emitted,          \* number of emit() calls made by handleEvent so far
  delivered,        \* the listener calls made by those emits, in order
  running,          \* a listener called by emit has not returned yet
  messageErrors,    \* number of 'message_error' events emitted by the 'message' handler
  openaiWs,         \* OpenAIRealtimeClient.ws: the state of its socket, "none" for undefined
  functionCalls,    \* the function calls handleFunctionCall was given, in order
  functionResults,  \* the function results written to the OpenAI socket, in order
  isRunning,        \* VoiceServiceApplication.isRunning
  startPc,          \* where start() is
  shutdownPc,       \* where shutdown() is
  wyomingListening, \* the Wyoming server is listening
  httpListening,    \* the HTTP server of the control API is listening
  currentSession,   \* control API: currentSession
  vadEnabled,       \* control API: vadEnabled
  sessionsCreated,  \* control API: number of sessions created, the last uuid given out
  response          \* control API: the response to the last request

vars == <<config, auditEntries, auditPushed, sockets, ws, connected, reconnecting, messageId,
          pendingRequests, calls, issued, sent, now, recent, verdict, listeners, emitted,
          delivered, running, messageErrors, openaiWs, functionCalls, functionResults,
          isRunning, startPc, shutdownPc, wyomingListening, httpListening, currentSession,
          vadEnabled, sessionsCreated, response>>

securityVars == <<config, auditEntries, auditPushed>>
clientVars == <<messageId, pendingRequests, issued, sent>>
connectionVars == <<sockets, ws, connected>>
emitterVars == <<listeners, emitted, delivered, running, messageErrors>>
functionVars == <<openaiWs, functionCalls, functionResults>>
lifecycleVars == <<isRunning, startPc, shutdownPc, wyomingListening, httpListening>>
controlVars == <<currentSession, vadEnabled, sessionsCreated, response>>
applicationVars == <<functionVars, lifecycleVars, controlVars>>
bridgeVars == <<securityVars, connectionVars, reconnecting, clientVars, calls, now, recent,
                verdict, emitterVars>>

NoServiceCall == ServiceCall("", <<>>, NoEntity, NoData, FALSE)
NoValidation == Validation(FALSE, FALSE, <<>>, <<>>, NoSanitized)
NoOutcome == [kind |-> "none", message |-> <<>>]
NoAnswer == [asked |-> FALSE, limit |-> 0, entries |-> <<>>]
NoVerdict == [asked |-> FALSE, serviceCall |-> NoServiceCall, validation |-> NoValidation,
              appended |-> <<>>]
\* let currentSession: SessionState | null = null
NoSession == [present |-> FALSE, sessionId |-> 0, mode |-> "", status |-> ""]
NoResponse == [route |-> "", status |-> 0, error |-> "", session_id |-> 0,
               vad_enabled |-> FALSE, current_session |-> NoSession]

\* the fields of a SecurityController and an HABridge after construction, and
\* those of the application and the control API built around them
Constructed ==
  /\ openaiWs = "none"
  /\ functionCalls = <<>>
  /\ functionResults = <<>>
  /\ isRunning = FALSE
  /\ startPc = "idle"
  /\ shutdownPc = "idle"
  /\ wyomingListening = FALSE
  /\ httpListening = FALSE
  /\ currentSession = NoSession
  /\ vadEnabled = FALSE
  /\ sessionsCreated = 0
  /\ response = NoResponse
  /\ auditEntries = <<>>
  /\ auditPushed = 0
  /\ sockets = <<>>
  /\ ws = 0
  /\ connected = FALSE
  /\ reconnecting = FALSE
  /\ messageId = InitialMessageId
  /\ pendingRequests = <<>>
  /\ calls = <<>>
  /\ issued = <<>>
  /\ sent = <<>>
  /\ now = 0
  /\ recent = NoAnswer
  /\ verdict = NoVerdict
  /\ listeners = <<>>
  /\ emitted = 0
  /\ delivered = <<>>
  /\ running = FALSE
  /\ messageErrors = 0

Init == config \in Configs /\ Constructed

(***************************************************************************)
(* Promises and the event loop                                             *)
(***************************************************************************)
\* resolve/reject of a promise: only the first settlement counts
Settle(call, kind, message) ==
  IF call.outcome.kind = "none"
  THEN [call EXCEPT !.outcome = [kind |-> kind, message |-> message],
                    !.pc = "settled"]
  ELSE call

\* the continuation of an await is a microtask: it runs before any socket event
\* or timer callback is taken from the event loop.  A callback runs to
\* completion: while `running`, no other callback, continuation or call starts
MicrotaskPending == \E c \in 1..Len(calls) : calls[c].pc = "validating"

(***************************************************************************)
(* HABridge.send, HABridge.sendRequest                                     *)
(***************************************************************************)
wsOpen == ws # 0 /\ sockets[ws].state = "open"

send_twice(message) ==
  IF wsOpen THEN sent \o <<[socket |-> ws, frame |-> message], [socket |-> ws, frame |-> message]>>
  ELSE sent

\* the frames on the wire after send(message)
send(message) == IF wsOpen THEN Append(sent, [socket |-> ws, frame |-> message]) ELSE sent

RequestFrame(type, id, serviceCall) == [type |-> type, id |-> id, call |-> serviceCall]

MapSet(map, key, value) ==
  [k \in DOMAIN map \cup {key} |-> IF k = key THEN value ELSE map[k]]

MapDelete_all(map, key) == <<>>

MapDelete(map, key) == [k \in DOMAIN map \ {key} |-> map[k]]

timeoutOf(option) == IF option = 0 THEN DefaultTimeout ELSE option

nextMessageId_same(id) == id

\* const id = this.messageId++
nextMessageId(id) == id + 1

\* sendRequest for call c: arm the timer, record the pending request, send
sendRequest(c, callRecord, message) ==
  /\ calls' = [k \in 1..Len(calls) \cup {c} |->
                 IF k = c
                 THEN [callRecord EXCEPT !.pc = "pending", !.id = message.id, !.timer = "armed",
                                         !.deadline = now + timeoutOf(callRecord.timeout)]
                 ELSE calls[k]]
  /\ pendingRequests' = MapSet(pendingRequests, message.id, c)
  /\ sent' = send(message)

(***************************************************************************)
(* HABridge.callService                                                    *)
(***************************************************************************)
NewCall(op, serviceCall, timeout, pc, validation) ==
  [op |-> op, serviceCall |-> serviceCall, timeout |-> timeout, pc |-> pc,
   validation |-> validation, id |-> 0, timer |-> "none", deadline |-> 0,
   outcome |-> NoOutcome]

dispatchDenied_never(validation) == FALSE

\* if (!validation.allowed) throw new Error(validation.reason)
dispatchDenied(validation) == ~validation.allowed

\* callService up to its await: validateServiceCall runs to completion
callService(serviceCall, timeout) ==
  /\ ~running
  /\ Len(calls) < MaxCalls
  /\ LET r == validateServiceCall(config, serviceCall)
     IN /\ auditEntries' = addAuditEntries(auditEntries, r.appended)
        /\ auditPushed' = auditPushed + Len(r.appended)
        /\ calls' = Append(calls, NewCall("call_service", serviceCall, timeout,
                                          "validating", r.validation))
  /\ recent' = NoAnswer
  /\ UNCHANGED <<config, connectionVars, reconnecting, clientVars, now, verdict, emitterVars>>

CallService(serviceCall, timeout) == callService(serviceCall, timeout) /\ UNCHANGED applicationVars

\* callService after its await
CallServiceResume(c) ==
  /\ ~running
  /\ c \in 1..Len(calls)
  /\ calls[c].pc = "validating"
  /\ IF dispatchDenied(calls[c].validation)
     THEN /\ calls' = [calls EXCEPT ![c] = Settle(@, "rejected", calls[c].validation.reason)]
          /\ UNCHANGED clientVars
     ELSE /\ messageId' = nextMessageId(messageId)
          /\ issued' = Append(issued, messageId)
          /\ sendRequest(c, calls[c],
                         RequestFrame("call_service", messageId, calls[c].serviceCall))
  /\ UNCHANGED <<securityVars, recent, verdict, reconnecting, applicationVars, emitterVars,
                 connectionVars, now>>

(***************************************************************************)
(* HABridge.getStates, subscribeEvents, unsubscribeEvents                  *)
(***************************************************************************)
plainRequest(op) ==
  /\ ~running
  /\ Len(calls) < MaxCalls
  /\ messageId' = nextMessageId(messageId)
  /\ issued' = Append(issued, messageId)
  /\ sendRequest(Len(calls) + 1, NewCall(op, NoServiceCall, 0, "pending", NoValidation),
                 RequestFrame(op, messageId, NoServiceCall))
  /\ UNCHANGED <<securityVars, recent, verdict, reconnecting, emitterVars,
                 connectionVars, now>>

PlainRequest(op) == plainRequest(op) /\ UNCHANGED applicationVars

GetStates == PlainRequest("get_states")
SubscribeEvents == PlainRequest("subscribe_events")
UnsubscribeEvents == PlainRequest("unsubscribe_events")

(***************************************************************************)
(* HABridge.sendRequest: the timeout callback                              *)
(***************************************************************************)
timerDue_atOnce(deadline, clock) == TRUE

\* setTimeout(callback, timeout): the callback runs once the delay has passed
timerDue(deadline, clock) == clock >= deadline

timeoutDelete_kept(map, id) == map

\* this.pendingRequests.delete(message.id)
timeoutDelete(map, id) == MapDelete(map, id)

TimeoutFire(c) ==
  /\ ~MicrotaskPending
  /\ ~running
  /\ c \in 1..Len(calls)
  /\ calls[c].timer = "armed"
  /\ timerDue(calls[c].deadline, now)
  /\ pendingRequests' = timeoutDelete(pendingRequests, calls[c].id)
  /\ calls' = [calls EXCEPT ![c] = [Settle(@, "rejected", <<"Request timeout">>)
                                      EXCEPT !.timer = "fired"]]
  /\ UNCHANGED <<securityVars, recent, verdict, reconnecting, applicationVars, emitterVars,
                 connectionVars, messageId, issued, sent, now>>

\* Time passes by one timeout period, while some armed timer is not yet due
\* (the clock is read only by the timers).
Tick ==
  /\ \E c \in 1..Len(calls) : calls[c].timer = "armed" /\ now < calls[c].deadline
  /\ now' = now + DefaultTimeout
  /\ UNCHANGED <<securityVars, recent, verdict, reconnecting, applicationVars, emitterVars,
                 connectionVars, clientVars, calls>>

(***************************************************************************)
(* HABridge.connect, disconnect and the socket's events                    *)
(***************************************************************************)
connect ==
  /\ ~running
  /\ sockets' = Append(sockets, [state |-> "connecting", promise |-> "pending",
                                 onceAuthRequired |-> TRUE, onceAuthOk |-> TRUE,
                                 onceAuthInvalid |-> TRUE, heard |-> {}])
  /\ ws' = Len(sockets) + 1
  /\ UNCHANGED <<securityVars, recent, verdict, reconnecting, emitterVars,
                 connected, clientVars, calls, now>>

Connect == connect /\ UNCHANGED applicationVars

disconnect ==
  /\ ~running
  /\ connected' = FALSE
  /\ IF ws # 0
     THEN /\ sockets' = [sockets EXCEPT ![ws].state =
                           IF @ \in {"connecting", "open"} THEN "closing" ELSE @]
          /\ ws' = 0
     ELSE UNCHANGED <<sockets, ws>>
  /\ UNCHANGED <<securityVars, recent, verdict, reconnecting, emitterVars,
                 clientVars, calls, now>>

Disconnect == disconnect /\ UNCHANGED applicationVars

SettlePromise(socket, outcome) ==
  IF socket.promise = "pending" THEN [socket EXCEPT !.promise = outcome] ELSE socket

WsOpen_ready(s) ==
  /\ ~MicrotaskPending
  /\ ~running
  /\ s \in 1..Len(sockets)
  /\ sockets[s].state = "connecting"
  /\ sockets' = [sockets EXCEPT ![s].state = "open"]
  /\ connected' = TRUE
  /\ UNCHANGED <<securityVars, recent, verdict, reconnecting, applicationVars, emitterVars,
                 ws, clientVars, calls, now>>

\* ws.on('open')
WsOpen(s) ==
  /\ ~MicrotaskPending
  /\ ~running
  /\ s \in 1..Len(sockets)
  /\ sockets[s].state = "connecting"
  /\ sockets' = [sockets EXCEPT ![s].state = "open"]
  /\ UNCHANGED <<securityVars, recent, verdict, reconnecting, applicationVars, emitterVars,
                 ws, connected, clientVars, calls, now>>

\* ws.on('error'): reject(error) of the connect() that created the socket
WsError(s) ==
  /\ ~MicrotaskPending
  /\ ~running
  /\ s \in 1..Len(sockets)
  /\ sockets[s].state \in {"connecting", "open"}
  /\ sockets' = [sockets EXCEPT ![s] = [SettlePromise(@, "rejected") EXCEPT !.state = "errored"]]
  /\ UNCHANGED <<securityVars, recent, verdict, reconnecting, applicationVars, emitterVars,
                 ws, connected, clientVars, calls, now>>

\* ws.on('close'): this.connected = false; pending requests are left alone
WsClose(s) ==
  /\ ~MicrotaskPending
  /\ ~running
  /\ s \in 1..Len(sockets)
  /\ sockets[s].state \in {"open", "errored", "closing"}
  /\ sockets' = [sockets EXCEPT ![s].state = "closed"]
  /\ connected' = FALSE
  /\ UNCHANGED <<securityVars, recent, verdict, reconnecting, applicationVars, emitterVars,
                 ws, clientVars, calls, now>>

(***************************************************************************)
(* HABridge.handleMessage and its handlers                                 *)
(***************************************************************************)
\* the frames authenticate() sends: one per 'auth_required' once-listener
RECURSIVE RepeatSend(_, _, _)
RepeatSend(log, n, message) ==
  IF n = 0 \/ ~wsOpen THEN log
  ELSE RepeatSend(Append(log, [socket |-> ws, frame |-> message]), n - 1, message)

AuthFrame == RequestFrame("auth", 0, NoServiceCall)

\* the control frame of type `type` has come in on socket s
Heard(socket, k, s, type) ==
  IF k = s THEN [socket EXCEPT !.heard = @ \cup {type}] ELSE socket

OnAuthRequired(s) ==
  /\ sent' = RepeatSend(sent, Cardinality({k \in 1..Len(sockets) : sockets[k].onceAuthRequired}),
                        AuthFrame)
  /\ sockets' = [k \in 1..Len(sockets) |->
                   Heard([sockets[k] EXCEPT !.onceAuthRequired = FALSE], k, s, "auth_required")]
  /\ UNCHANGED <<securityVars, recent, verdict, reconnecting, applicationVars, emitterVars,
                 ws, connected, messageId, pendingRequests, issued, calls, now>>

OnAuthOk(s) ==
  /\ connected' = (connected \/ \E k \in 1..Len(sockets) : sockets[k].onceAuthOk)
  /\ sockets' = [k \in 1..Len(sockets) |->
                   Heard(IF sockets[k].onceAuthOk
                         THEN [SettlePromise(sockets[k], "resolved") EXCEPT !.onceAuthOk = FALSE]
                         ELSE sockets[k], k, s, "auth_ok")]
  /\ UNCHANGED <<securityVars, recent, verdict, reconnecting, applicationVars, emitterVars,
                 ws, clientVars, calls, now>>

OnAuthInvalid(s) ==
  /\ sockets' = [k \in 1..Len(sockets) |->
                   Heard(IF sockets[k].onceAuthInvalid
                         THEN [SettlePromise(sockets[k], "rejected")
                                 EXCEPT !.onceAuthInvalid = FALSE]
                         ELSE sockets[k], k, s, "auth_invalid")]
  /\ UNCHANGED <<securityVars, recent, verdict, reconnecting, applicationVars, emitterVars,
                 ws, connected, clientVars, calls, now>>

\* const pending = this.pendingRequests.get(message.id); if (pending) ...
hasPending(map, id) == id \in DOMAIN map

clearTimeout_ignored(timer) == timer

\* clearTimeout(pending.timeout): an armed timer will not fire
clearTimeout(timer) == IF timer = "armed" THEN "cleared" ELSE timer

handleResponse(message) ==
  IF hasPending(pendingRequests, message.id)
  THEN LET c == pendingRequests[message.id]
       IN /\ pendingRequests' = MapDelete(pendingRequests, message.id)
          /\ calls' = [calls EXCEPT ![c] =
               [(IF message.success
                 THEN Settle(@, "resolved", message.result)
                 ELSE Settle(@, "rejected",
                             IF message.error # <<>> THEN message.error ELSE UnknownError))
                EXCEPT !.timer = clearTimeout(@)]]
          /\ UNCHANGED <<securityVars, recent, verdict, reconnecting, applicationVars, emitterVars,
                         connectionVars, messageId, issued, sent, now>>
  ELSE UNCHANGED vars

(***************************************************************************)
(* HABridge.handleEvent and the EventEmitter                               *)
(***************************************************************************)
\* on(type, listener): the listener is added at the end of the list; `throws`
\* says whether the listener's code raises an exception when called, `slow`
\* whether it computes for a while before it returns, `since` is the number of
\* emits made before it was added
on(type, throws, slow) ==
  /\ ~running
  /\ listeners' = Append(listeners, [type |-> type, throws |-> throws, slow |-> slow,
                                     since |-> emitted])
  /\ UNCHANGED <<securityVars, recent, verdict, reconnecting, applicationVars, connectionVars, clientVars,
                 calls, now, emitted, delivered, running, messageErrors>>

Subscribe(type, throws) == on(type, throws, FALSE)

SubscribeSlow(type) == on(type, FALSE, TRUE)

\* the listeners of a type, in the order they were added
ListenersOf(type) ==
  SelectSeq([i \in 1..Len(listeners) |-> i], LAMBDA i : listeners[i].type = type)

CallUntilThrow_twice(ids) == ids \o ids

\* emit calls the listeners one after the other; an exception raised by a
\* listener leaves emit at once, so the listeners after it are not called
RECURSIVE CallUntilThrow(_)
CallUntilThrow(ids) ==
  IF ids = <<>> THEN <<>>
  ELSE IF listeners[Head(ids)].throws THEN <<Head(ids)>>
  ELSE <<Head(ids)>> \o CallUntilThrow(Tail(ids))

\* catch (error) { this.emit('message_error', ...) }: nothing listens to it
messageError ==
  /\ messageErrors' = messageErrors + 1
  /\ UNCHANGED <<securityVars, recent, verdict, reconnecting, applicationVars, connectionVars, clientVars,
                 calls, now, listeners, emitted, delivered, running>>

\* this.emit(type, event.data): the listener calls it makes.  emit calls the
\* listeners on the stack of the 'message' handler: the handler has not returned
\* as long as a listener it called is still computing.  The exception of a
\* listener is caught by the 'message' handler
emit(type) ==
  LET called == CallUntilThrow(ListenersOf(type))
  IN /\ emitted' = emitted + 1
     /\ delivered' = delivered \o
          [k \in 1..Len(called) |-> [frame |-> emitted + 1, listener |-> called[k]]]
     /\ running' = \E k \in 1..Len(called) : listeners[called[k]].slow
     /\ messageErrors' = IF \E k \in 1..Len(called) : listeners[called[k]].throws
                         THEN messageErrors + 1 ELSE messageErrors
     /\ UNCHANGED <<securityVars, recent, verdict, reconnecting, applicationVars, connectionVars, clientVars,
                    calls, now, listeners>>

\* the slow listener returns, and with it emit, handleEvent and the 'message'
\* handler: the event loop takes the next callback
ListenerReturn ==
  /\ running
  /\ running' = FALSE
  /\ UNCHANGED <<securityVars, recent, verdict, reconnecting, applicationVars, connectionVars, clientVars,
                 calls, now, listeners, emitted, delivered, messageErrors>>

handleEvent_unguarded(event) == emit(event.event_type)

\* handleEvent(message.event): reading event_type of an absent body throws, and
\* so may a listener; the 'message' handler catches either.  A body of another
\* event_type is passed over
handleEvent(event) ==
  IF ~event.present THEN messageError
  ELSE IF event.event_type \in EventTypes THEN emit(event.event_type)
  ELSE UNCHANGED vars

\* ws.on('message'): JSON.parse, handleMessage; an exception emits
\* 'message_error'.  A frame of type "malformed" stands for data JSON.parse
\* rejects; a frame of no known type is passed over
WsMessage(s, message) ==
  /\ ~MicrotaskPending
  /\ ~running
  /\ s \in 1..Len(sockets)
  /\ sockets[s].state = "open"
  /\ CASE message.type = "malformed" -> messageError
       [] message.type = "auth_required" -> OnAuthRequired(s)
       [] message.type = "auth_ok" -> OnAuthOk(s)
       [] message.type = "auth_invalid" -> OnAuthInvalid(s)
       [] message.type = "result" /\ message.id # 0 -> handleResponse(message)
       [] message.type = "event" -> handleEvent(message.event)
       [] OTHER -> UNCHANGED vars

(***************************************************************************)
(* The SecurityController called directly                                  *)
(***************************************************************************)
ValidateServiceCall_remembering(serviceCall) ==
  /\ ~running
  /\ LET r == validateServiceCall(config,
                 [serviceCall EXCEPT !.confirmed = @ /\ verdict.validation.requiresConfirmation])
     IN /\ auditEntries' = addAuditEntries(auditEntries, r.appended)
        /\ auditPushed' = auditPushed + Len(r.appended)
        /\ verdict' = [asked |-> TRUE, serviceCall |-> serviceCall,
                       validation |-> r.validation, appended |-> r.appended]
  /\ recent' = NoAnswer
  /\ UNCHANGED <<config, connectionVars, reconnecting, applicationVars, clientVars, calls, now, emitterVars>>

\* validateServiceCall(serviceCall), its verdict handed to the caller
ValidateServiceCall(serviceCall) ==
  /\ ~running
  /\ LET r == validateServiceCall(config, serviceCall)
     IN /\ auditEntries' = addAuditEntries(auditEntries, r.appended)
        /\ auditPushed' = auditPushed + Len(r.appended)
        /\ verdict' = [asked |-> TRUE, serviceCall |-> serviceCall,
                       validation |-> r.validation, appended |-> r.appended]
  /\ recent' = NoAnswer
  /\ UNCHANGED <<config, connectionVars, reconnecting, applicationVars, clientVars, calls, now, emitterVars>>

mergeConfig_domainsOnly(old, newConfig) ==
  [f \in DOMAIN old |->
     IF f \in DOMAIN newConfig /\ f = "allowedDomains" THEN newConfig[f] ELSE old[f]]

\* { ...this.config, ...newConfig }: the fields newConfig gives replace those of
\* the configuration, the others stay
mergeConfig(old, newConfig) ==
  [f \in DOMAIN old \cup DOMAIN newConfig |->
     IF f \in DOMAIN newConfig THEN newConfig[f] ELSE old[f]]

ConfigUpdatedEntry ==
  AuditEntry("security_config_updated", "none", NoServiceCall, NoEntity, TRUE, FALSE)

\* updateConfig(newConfig): one assignment to this.config, then the audit entry
UpdateConfig(newConfig) ==
  /\ ~running
  /\ config' = mergeConfig(config, newConfig)
  /\ auditEntries' = addAuditEntry(auditEntries, ConfigUpdatedEntry)
  /\ auditPushed' = auditPushed + 1
  /\ recent' = NoAnswer
  /\ UNCHANGED <<connectionVars, reconnecting, applicationVars, clientVars, calls, now, verdict, emitterVars>>

\* getAuditLog(limit)
GetAuditLog(limit) ==
  /\ ~running
  /\ recent' = [asked |-> TRUE, limit |-> limit, entries |-> getAuditLog(auditEntries, limit)]
  /\ UNCHANGED <<securityVars, connectionVars, reconnecting, applicationVars, clientVars, calls, now, verdict,
                 emitterVars>>

(***************************************************************************)
(* OpenAIRealtimeClient: connect, the socket's events, sendFunctionResult  *)
(***************************************************************************)
\* connect(): this.ws = new WebSocket(...)
openaiConnect == openaiWs' = "connecting"

OpenAIConnect ==
  /\ openaiConnect
  /\ UNCHANGED <<bridgeVars, functionCalls, functionResults, lifecycleVars, controlVars>>

\* ws.on('close'): emit('disconnect')
OpenAIClose ==
  /\ openaiWs = "open"
  /\ openaiWs' = "closed"
  /\ UNCHANGED <<bridgeVars, functionCalls, functionResults, lifecycleVars, controlVars>>

\* what handleFunctionCall hands to sendFunctionResult
SuccessResult == [success |-> TRUE, error |-> <<>>]
ErrorResult(errorMessage) == [success |-> FALSE, error |-> errorMessage]

\* send(event): if (this.ws && this.ws.readyState === WebSocket.OPEN) this.ws.send(...)
openaiSend(results, event) == IF openaiWs = "open" THEN Append(results, event) ELSE results

\* sendFunctionResult(callId, result): one conversation.item.create event
sendFunctionResult(results, callId, result) ==
  openaiSend(results, [call_id |-> callId, success |-> result.success, error |-> result.error])

(***************************************************************************)
(* VoiceServiceApplication.handleFunctionCall                              *)
(***************************************************************************)
UnknownFunction(name) == <<"Unknown function: ", name>>
EntityNotFound == <<"Entity not found">>

FunctionCall(name, request, pc) == [name |-> name, request |-> request, pc |-> pc, found |-> FALSE]

\* the 'message' handler of the OpenAI socket given
\* response.function_call_arguments.done: emit('function_call') calls
\* handleFunctionCall, which runs up to its first await; the call_id is the
\* place of the call in functionCalls
HandleFunctionCall(name, args) ==
  /\ ~running
  /\ openaiWs = "open"
  /\ Len(functionCalls) < MaxCalls
  /\ CASE name = "call_service" ->
            /\ callService(args, 0)
            /\ functionCalls' = Append(functionCalls,
                                       FunctionCall(name, Len(calls) + 1, "awaiting"))
            /\ UNCHANGED <<openaiWs, functionResults, lifecycleVars, controlVars>>
       [] name = "get_state" ->
            /\ plainRequest("get_states")
            /\ functionCalls' = Append(functionCalls,
                                       FunctionCall(name, Len(calls) + 1, "awaiting"))
            /\ UNCHANGED <<openaiWs, functionResults, lifecycleVars, controlVars>>
       [] OTHER ->
            \* default: throw new Error(`Unknown function: ${name}`), caught
            /\ functionCalls' = Append(functionCalls, FunctionCall(name, 0, "done"))
            /\ functionResults' = sendFunctionResult(functionResults, Len(functionCalls) + 1,
                                                     ErrorResult(UnknownFunction(name)))
            /\ UNCHANGED <<openaiWs, bridgeVars, lifecycleVars, controlVars>>

\* handleFunctionCall after its await of callService or getState: the result
\* of a resolved request, with states.find for get_state, or the catch
FunctionCallResume(k) ==
  /\ ~running
  /\ k \in 1..Len(functionCalls)
  /\ functionCalls[k].pc = "awaiting"
  /\ calls[functionCalls[k].request].pc = "settled"
  /\ \E found \in (IF functionCalls[k].name = "get_state" THEN BOOLEAN ELSE {TRUE}) :
       LET outcome == calls[functionCalls[k].request].outcome
           result == IF outcome.kind # "resolved" THEN ErrorResult(outcome.message)
                     ELSE IF ~found THEN ErrorResult(EntityNotFound)
                     ELSE SuccessResult
       IN /\ functionResults' = sendFunctionResult(functionResults, k, result)
          /\ functionCalls' = [functionCalls EXCEPT ![k].pc = "done", ![k].found = found]
  /\ UNCHANGED <<openaiWs, bridgeVars, lifecycleVars, controlVars>>

(***************************************************************************)
(* VoiceServiceApplication.start and shutdown                              *)
(***************************************************************************)
\* ws.on('open') of the OpenAI socket: resolve(); start(), if it awaits this
\* connect, goes on to haBridge.connect()
OpenAIOpen ==
  /\ ~running
  /\ openaiWs = "connecting"
  /\ openaiWs' = "open"
  /\ IF startPc = "openai"
     THEN connect /\ startPc' = "ha"
     ELSE UNCHANGED <<bridgeVars, startPc>>
  /\ UNCHANGED <<functionCalls, functionResults, isRunning, shutdownPc, wyomingListening,
                 httpListening, controlVars>>

\* ws.on('error') of the OpenAI socket: reject(error); start(), if it awaits
\* this connect, catches it: shutdown() returns at once, since isRunning is
\* still false, and start() rejects
OpenAIError ==
  /\ openaiWs = "connecting"
  /\ openaiWs' = "closed"
  /\ startPc' = IF startPc = "openai" THEN "rejected" ELSE startPc
  /\ UNCHANGED <<bridgeVars, functionCalls, functionResults, isRunning, shutdownPc,
                 wyomingListening, httpListening, controlVars>>

\* start() up to its first await: it throws on a running application; listen()
\* on a server that is listening already throws ERR_SERVER_ALREADY_LISTEN into
\* the catch, where shutdown() returns at once
Start ==
  /\ startPc \in {"idle", "resolved", "rejected", "threw"}
  /\ startPc' = IF isRunning THEN "threw"
                ELSE IF wyomingListening THEN "rejected"
                ELSE "wyoming"
  /\ UNCHANGED <<bridgeVars, functionVars, isRunning, shutdownPc, wyomingListening,
                 httpListening, controlVars>>

\* the Wyoming server listens: resolve(), and start() calls httpServer.listen
WyomingListens ==
  /\ startPc = "wyoming"
  /\ wyomingListening' = TRUE
  /\ startPc' = IF httpListening THEN "rejected" ELSE "http"
  /\ UNCHANGED <<bridgeVars, functionVars, isRunning, shutdownPc, httpListening, controlVars>>

\* the HTTP server listens: resolve(), and start() calls openaiClient.connect()
HttpListens ==
  /\ startPc = "http"
  /\ httpListening' = TRUE
  /\ openaiConnect
  /\ startPc' = "openai"
  /\ UNCHANGED <<bridgeVars, functionCalls, functionResults, isRunning, shutdownPc,
                 wyomingListening, controlVars>>

\* start() after its await of haBridge.connect(): isRunning = true, or the
\* catch, where shutdown() returns at once
StartResume ==
  /\ ~running
  /\ startPc = "ha"
  /\ sockets[Len(sockets)].promise # "pending"
  /\ IF sockets[Len(sockets)].promise = "resolved"
     THEN isRunning' = TRUE /\ startPc' = "resolved"
     ELSE isRunning' = isRunning /\ startPc' = "rejected"
  /\ UNCHANGED <<bridgeVars, functionVars, shutdownPc, wyomingListening, httpListening,
                 controlVars>>

\* shutdown() up to its await: if (!this.isRunning) return; otherwise both
\* servers are closed
Shutdown ==
  /\ shutdownPc # "closing"
  /\ IF ~isRunning
     THEN UNCHANGED <<isRunning, shutdownPc, wyomingListening, httpListening>>
     ELSE /\ isRunning' = FALSE
          /\ wyomingListening' = FALSE
          /\ httpListening' = FALSE
          /\ shutdownPc' = "closing"
  /\ UNCHANGED <<bridgeVars, functionVars, startPc, controlVars>>

\* shutdown() after both close callbacks: openaiClient.disconnect(),
\* haBridge.disconnect()
ShutdownResume ==
  /\ shutdownPc = "closing"
  /\ shutdownPc' = "done"
  /\ openaiWs' = IF openaiWs = "none" THEN "none" ELSE "closed"
  /\ disconnect
  /\ UNCHANGED <<functionCalls, functionResults, isRunning, startPc, wyomingListening,
                 httpListening, controlVars>>

(***************************************************************************)
(* Control API: POST /start_ptt, /stop_ptt, /toggle_vad, GET /status       *)
(***************************************************************************)
\* req.body.timeout_ms: not given, a number, or a value that is not a number
NoTimeout == [kind |-> "undefined", value |-> 0]
NumberMs(n) == [kind |-> "number", value |-> n]
NotANumber == [kind |-> "string", value |-> 0]

timeoutRejected_never(timeout_ms) == FALSE

\* timeout_ms !== undefined &&
\* (typeof timeout_ms !== 'number' || timeout_ms < 1000 || timeout_ms > 300000)
timeoutRejected(timeout_ms) ==
  /\ timeout_ms.kind # "undefined"
  /\ \/ timeout_ms.kind # "number"
     \/ timeout_ms.value < MinTimeoutMs
     \/ timeout_ms.value > MaxTimeoutMs

sessionActive(session) == session.present /\ session.status = "active"

NewSession(sessionId, mode) ==
  [present |-> TRUE, sessionId |-> sessionId, mode |-> mode, status |-> "active"]

BadRequest(route, error) == [NoResponse EXCEPT !.route = route, !.status = 400, !.error = error]
Ok(route) == [NoResponse EXCEPT !.route = route, !.status = 200]

StartPtt(timeout_ms) ==
  IF timeoutRejected(timeout_ms)
  THEN /\ response' = BadRequest("start_ptt", "invalid_timeout")
       /\ UNCHANGED <<bridgeVars, functionVars, lifecycleVars, currentSession, vadEnabled,
                      sessionsCreated>>
  ELSE IF sessionActive(currentSession)
  THEN /\ response' = BadRequest("start_ptt", "session_active")
       /\ UNCHANGED <<bridgeVars, functionVars, lifecycleVars, currentSession, vadEnabled,
                      sessionsCreated>>
  ELSE /\ sessionsCreated < MaxSessions
       /\ sessionsCreated' = sessionsCreated + 1
       /\ currentSession' = NewSession(sessionsCreated + 1, "ptt")
       /\ response' = [Ok("start_ptt") EXCEPT !.session_id = sessionsCreated + 1]
       /\ UNCHANGED <<bridgeVars, functionVars, lifecycleVars, vadEnabled>>

StopPtt ==
  IF ~sessionActive(currentSession)
  THEN /\ response' = BadRequest("stop_ptt", "no_active_session")
       /\ UNCHANGED <<bridgeVars, functionVars, lifecycleVars, currentSession, vadEnabled,
                      sessionsCreated>>
  ELSE /\ response' = [Ok("stop_ptt") EXCEPT !.session_id = currentSession.sessionId]
       /\ currentSession' = NoSession
       /\ UNCHANGED <<bridgeVars, functionVars, lifecycleVars, vadEnabled, sessionsCreated>>

ToggleVad ==
  /\ vadEnabled' = ~vadEnabled
  /\ IF ~vadEnabled /\ ~currentSession.present
     THEN /\ sessionsCreated < MaxSessions
          /\ sessionsCreated' = sessionsCreated + 1
          /\ currentSession' = NewSession(sessionsCreated + 1, "vad")
          /\ response' = [Ok("toggle_vad") EXCEPT !.vad_enabled = TRUE,
                                                  !.session_id = sessionsCreated + 1]
     ELSE /\ currentSession' = IF vadEnabled /\ currentSession.mode = "vad"
                               THEN NoSession ELSE currentSession
          /\ response' = [Ok("toggle_vad") EXCEPT !.vad_enabled = ~vadEnabled]
          /\ UNCHANGED sessionsCreated
  /\ UNCHANGED <<bridgeVars, functionVars, lifecycleVars>>

GetStatus ==
  /\ response' = [Ok("status") EXCEPT !.vad_enabled = vadEnabled,
                                      !.current_session = currentSession]
  /\ UNCHANGED <<bridgeVars, functionVars, lifecycleVars, currentSession, vadEnabled,
                 sessionsCreated>>

\* a caller resubmits a command it was asked to confirm, with confirmed = true
Resubmissions ==
  {[calls[c].serviceCall EXCEPT !.confirmed = TRUE] :
     c \in {k \in 1..Len(calls) : calls[k].validation.requiresConfirmation}}

\* the application connects once, in start(), and disconnects in shutdown()
ConnectOnce == sockets = <<>> /\ Connect

\* The remote controller follows the Home Assistant handshake: auth_required is
\* the first frame on a socket, and one auth_ok or auth_invalid answers the auth
\* frame.  Result and event frames may come at any time, with any id.
AuthSentOn(s) == \E i \in 1..Len(sent) : sent[i].socket = s /\ sent[i].frame.type = "auth"

FollowsHandshake(s, message) ==
  CASE message.type = "auth_required" -> sockets[s].heard = {}
    [] message.type \in {"auth_ok", "auth_invalid"} ->
         AuthSentOn(s) /\ sockets[s].heard = {"auth_required"}
    [] OTHER -> TRUE

\* a frame the 'message' handler cannot read: data that is not JSON, or an
\* event frame without its body
IsMalformed(message) ==
  message.type = "malformed" \/ (message.type = "event" /\ ~message.event.present)

\* the remote controller sends at most MaxMalformed such frames
MayArrive(message) == IsMalformed(message) => messageErrors < MaxMalformed

BridgeEvents(frames) ==
  \/ \E c \in 1..Len(calls) : TimeoutFire(c)
  \/ Tick
  \/ ConnectOnce
  \/ Disconnect
  \/ \E s \in 1..Len(sockets) : WsOpen(s)
  \/ \E s \in 1..Len(sockets) : WsError(s)
  \/ \E s \in 1..Len(sockets) : WsClose(s)
  \/ \E s \in 1..Len(sockets), message \in frames :
       FollowsHandshake(s, message) /\ MayArrive(message) /\ WsMessage(s, message)

\* Dispatch: any command first, then resubmissions of commands awaiting confirmation
Next ==
  \/ \E serviceCall \in (IF calls = <<>> THEN Commands ELSE Resubmissions) :
       CallService(serviceCall, 0)
  \/ \E c \in 1..Len(calls) : CallServiceResume(c)
  \/ BridgeEvents(InboundFrames)

Spec == Init /\ [][Next]_vars

\* Protocol client: concurrent requests of every kind under one configuration
\* the frames of the protocol client's specification: every well-formed control
\* and event frame, and results with either outcome, a failure with or without a
\* message
ClientFrames ==
  {message \in InboundFrames :
     message.error \in {<<>>, <<"Service not found">>} /\ ~IsMalformed(message)}

ClientInit == Init /\ config = SecurityConfig({"light", "lock"}, {}, TRUE)

ClientNext ==
  \/ \E serviceCall \in ClientCommands, timeout \in TimeoutOptions :
       CallService(serviceCall, timeout)
  \/ \E c \in 1..Len(calls) : CallServiceResume(c)
  \/ GetStates
  \/ SubscribeEvents
  \/ UnsubscribeEvents
  \/ BridgeEvents(ClientFrames)

ClientSpec == ClientInit /\ [][ClientNext]_vars

\* The audit log: the controller is asked to validate one command after the
\* other, the commands taken in turn from AuditCommands (each leaves exactly one
\* entry under AuditConfig, and the three entries differ), and the log is read
\* with any of AuditLimits at any time.
AuditConfig == SecurityConfig({"light", "lock"}, {LightKitchen, LockFrontDoor}, TRUE)

AuditCommands ==
  << ServiceCall("light", TurnOn, StrEntity(LightKitchen), NoData, FALSE),
     ServiceCall("switch", TurnOn, StrEntity(LightBedroom), NoData, FALSE),
     ServiceCall("light", TurnOn, StrEntity(LightBedroom), NoData, FALSE) >>

AuditLimits == {0, 1, DefaultAuditLimit, AuditCapacity, AuditCapacity + 1}

NextAuditCommand == AuditCommands[(auditPushed % Len(AuditCommands)) + 1]

AuditInit == Init /\ config = AuditConfig

AuditNext ==
  \/ auditPushed < MaxInserts /\ ValidateServiceCall(NextAuditCommand)
  \/ \E limit \in AuditLimits : GetAuditLog(limit)

AuditSpec == AuditInit /\ [][AuditNext]_vars

\* Configuration: updateConfig is called between, and while, commands are
\* dispatched; each update gives some of the fields of the configuration.
ConfigUpdates ==
  { [allowedDomains |-> {"light", "lock", "switch"}],
    [entityWhitelist |-> {LightKitchen}],
    [confirmHighRiskActions |-> FALSE],
    [allowedDomains |-> {"lock"}, entityWhitelist |-> {}, confirmHighRiskActions |-> TRUE] }

ConfigCommands ==
  { ServiceCall("light", TurnOn, StrEntity(LightBedroom), NoData, FALSE),
    ServiceCall("switch", TurnOn, StrEntity(LightKitchen), NoData, FALSE),
    ServiceCall("lock", Unlock, StrEntity(LockFrontDoor), NoData, FALSE) }

Updates == Len(SelectSeq(auditEntries, LAMBDA e : e = ConfigUpdatedEntry))

ConfigNext ==
  \/ \E newConfig \in ConfigUpdates : Updates < MaxUpdates /\ UpdateConfig(newConfig)
  \/ \E serviceCall \in ConfigCommands : CallService(serviceCall, 0)
  \/ \E c \in 1..Len(calls) : CallServiceResume(c)

ConfigSpec == Init /\ [][ConfigNext]_vars

\* Policy: the controller is asked about one command of PolicyCommands under a
\* configuration of PolicyConfigs, and then about the commands of FollowUps and
\* the confirmed resubmission of a command it wanted confirmed.
AllDomains ==
  {"light", "lock", "water_heater", "alarm_control_panel", "cover", "climate", "vacuum"}

PolicyConfigs ==
  { SecurityConfig(AllDomains, {}, TRUE),
    SecurityConfig({"light", "lock"}, {LightKitchen, LockFrontDoor}, TRUE),
    SecurityConfig(AllDomains, {}, FALSE) }

LockBackDoor == <<"lock", ".", "back", "_", "door">>
WaterHeater == <<"water_heater", ".", "boiler">>
All == <<"all">>
Lamps(n) == [i \in 1..n |-> <<"light", ".", "lamp", ToString(i)>>]

Temperatures == {0 - 5, 0, 9, 10, 30, 31}

PolicyCommands ==
  { ServiceCall(domain, service, entity_id, NoData, FALSE) :
      domain \in {"light", "lock"}, service \in {TurnOn, TurnOff},
      entity_id \in {StrEntity(LightKitchen), StrEntity(All), ArrEntity(<<LightKitchen>>),
                     ArrEntity(Lamps(ListThreshold)), ArrEntity(Lamps(ListThreshold + 1))} }
  \cup { ServiceCall("water_heater", SetTemperature, StrEntity(WaterHeater), data, FALSE) :
           data \in {NoData} \cup {TempData(t) : t \in Temperatures} }
  \cup { ServiceCall("water_heater", TurnOn, StrEntity(WaterHeater), TempData(31), FALSE) }
  \cup { ServiceCall("lock", Unlock, entity_id, NoData, confirmed) :
           entity_id \in {StrEntity(LockFrontDoor), ArrEntity(<<LockFrontDoor>>),
                          ArrEntity(<<LockFrontDoor, LockBackDoor>>), StrEntity(All), NoEntity},
           confirmed \in BOOLEAN }
  \cup { ServiceCall("switch", TurnOn, StrEntity(LightBedroom), NoData, FALSE),
          ServiceCall("switch", Unlock, ArrEntity(<<LightBedroom, LightKitchen>>), NoData, FALSE),
          ServiceCall("light", TurnOff, StrEntity(LightBedroom), NoData, FALSE),
          ServiceCall("light", TurnOff,
                      ArrEntity(<<LightKitchen, LightBedroom, LockBackDoor>>), NoData, FALSE) }
  \cup { ServiceCall(domain, TurnOn, StrEntity(<<domain, ".", "one">>), NoData, FALSE) :
           domain \in {"alarm_control_panel", "cover", "climate", "vacuum"} }
  \cup { ServiceCall("light", service, StrEntity(LightKitchen), NoData, FALSE) :
           service \in {Unlock, OpenCover, AlarmDisarm} }

FollowUps ==
  { ServiceCall("light", TurnOn, StrEntity(LightKitchen), NoData, FALSE),
    ServiceCall("lock", Unlock, StrEntity(LockFrontDoor), NoData, FALSE),
    ServiceCall("lock", Unlock, StrEntity(LockFrontDoor), NoData, TRUE) }

\* the command the controller wanted confirmed, submitted again with confirmed = true
Resubmission ==
  IF verdict.validation.requiresConfirmation
  THEN {[verdict.serviceCall EXCEPT !.confirmed = TRUE]}
  ELSE {}

PolicyInit == config \in PolicyConfigs /\ Constructed

PolicyNext ==
  \E serviceCall \in (IF verdict.asked THEN FollowUps \cup Resubmission ELSE PolicyCommands) :
     auditPushed < MaxAudited /\ ValidateServiceCall(serviceCall)

PolicySpec == PolicyInit /\ [][PolicyNext]_vars

\* Events: listeners are added at any time, each of them failing or not, while
\* the remote controller sends event frames of every kind on the open socket.
EventInit == ClientInit

EventNext ==
  \/ ConnectOnce
  \/ Disconnect
  \/ \E s \in 1..Len(sockets) : WsOpen(s)
  \/ \E s \in 1..Len(sockets) : WsClose(s)
  \/ \E type \in EventTypes, throws \in BOOLEAN :
       Len(listeners) < MaxListeners /\ Subscribe(type, throws)
  \/ \E s \in 1..Len(sockets), message \in EventFrames \cup InboundFrames :
       /\ message.type = "event"
       /\ emitted < MaxFrames
       /\ MayArrive(message)
       /\ WsMessage(s, message)

EventSpec == EventInit /\ [][EventNext]_vars

\* Reconnection: the caller connects again once its earlier connect() has
\* settled, by failure or by success, with or without disconnect() in between;
\* the remote controller follows the handshake on every socket, and the
\* sockets open, fail and close at any time.
ControlFrames ==
  {Frame(type, 0, FALSE, <<>>, <<>>, NoEvent) : type \in {"auth_required", "auth_ok", "auth_invalid"}}

ConnectAgain ==
  /\ Len(sockets) < MaxConnects
  /\ \A s \in 1..Len(sockets) : sockets[s].promise # "pending"
  /\ Connect

ReconnectNext ==
  \/ ConnectAgain
  \/ Disconnect
  \/ \E s \in 1..Len(sockets) : WsOpen(s)
  \/ \E s \in 1..Len(sockets) : WsError(s)
  \/ \E s \in 1..Len(sockets) : WsClose(s)
  \/ \E s \in 1..Len(sockets), message \in ControlFrames :
       FollowsHandshake(s, message) /\ WsMessage(s, message)

ReconnectSpec == ClientInit /\ [][ReconnectNext]_vars

\* Response against deadline: requests are in flight on the open socket, the
\* clock advances, and the remote controller answers each request at any time,
\* also after its deadline and more than once.
Responses ==
  {Frame("result", i, TRUE, <<>>, ResultPayload, NoEvent) : i \in 1..MaxCalls}
  \cup {Frame("result", i, FALSE, <<"Service not found">>, <<>>, NoEvent) : i \in 1..MaxCalls}

RaceNext ==
  \/ ConnectOnce
  \/ \E s \in 1..Len(sockets) : WsOpen(s)
  \/ GetStates
  \/ \E s \in 1..Len(sockets), message \in Responses : WsMessage(s, message)
  \/ \E c \in 1..Len(calls) : TimeoutFire(c)
  \/ Tick

RaceSpec == ClientInit /\ [][RaceNext]_vars

\* Fan-out: requests are in flight on the open socket while the remote
\* controller sends event frames and responses, and the listeners of the events
\* take their time.
ResponseTo(c) == Frame("result", calls[c].id, TRUE, <<>>, ResultPayload, NoEvent)

FanoutNext ==
  \/ ConnectOnce
  \/ \E s \in 1..Len(sockets) : WsOpen(s)
  \/ GetStates
  \/ \E type \in EventTypes : Len(listeners) < MaxListeners /\ SubscribeSlow(type)
  \/ \E s \in 1..Len(sockets), message \in EventFrames :
       emitted < MaxFrames /\ WsMessage(s, message)
  \/ \E s \in 1..Len(sockets), c \in 1..Len(calls) : WsMessage(s, ResponseTo(c))
  \/ ListenerReturn

FanoutSpec == ClientInit /\ [][FanoutNext]_vars

\* Gateway: commands of every risk class are dispatched through callService
\* over one connection, under a configuration that allows their domains, with
\* or without an entity whitelist and with or without confirmation
GatewayDomains == {"light", "lock", "water_heater"}

GatewayConfigs ==
  { SecurityConfig(GatewayDomains, {}, TRUE),
    SecurityConfig(GatewayDomains, {LightKitchen, LockFrontDoor, WaterHeater}, TRUE),
    SecurityConfig({"light", "water_heater"}, {}, FALSE) }

GatewayCommands ==
  { ServiceCall("light", TurnOn, StrEntity(LightKitchen), NoData, FALSE),
    ServiceCall("light", TurnOn, StrEntity(LightBedroom), NoData, FALSE),
    ServiceCall("light", TurnOn, NoEntity, NoData, FALSE),
    ServiceCall("light", TurnOff, StrEntity(LightKitchen), NoData, FALSE),
    ServiceCall("switch", TurnOn, StrEntity(LightKitchen), NoData, FALSE),
    ServiceCall("lock", Unlock, StrEntity(LockFrontDoor), NoData, FALSE),
    ServiceCall("lock", Unlock, StrEntity(LockFrontDoor), NoData, TRUE),
    ServiceCall("lock", Unlock, ArrEntity(<<LockFrontDoor>>), NoData, TRUE) }
  \cup { ServiceCall("water_heater", SetTemperature, StrEntity(WaterHeater), TempData(t), FALSE) :
           t \in {0, 20, 31} }

GatewayInit == config \in GatewayConfigs /\ Constructed

GatewayNext ==
  \/ ConnectOnce
  \/ \E s \in 1..Len(sockets) : WsOpen(s)
  \/ \E s \in 1..Len(sockets), message \in ControlFrames :
       FollowsHandshake(s, message) /\ WsMessage(s, message)
  \/ \E serviceCall \in GatewayCommands : CallService(serviceCall, 0)
  \/ \E c \in 1..Len(calls) : CallServiceResume(c)

GatewaySpec == GatewayInit /\ [][GatewayNext]_vars

\* Function calls: the conversational transport is connected and asks for
\* functions, known and unknown, allowed and not, while the bridge's connection
\* is made, the remote controller answers or not, the clock advances, and the
\* transport's socket closes at any time.
FunctionNames == {"call_service", "get_state", "reboot"}

FunctionCommands ==
  { ServiceCall("light", TurnOn, StrEntity(LightKitchen), NoData, FALSE),
    ServiceCall("switch", TurnOn, StrEntity(LightKitchen), NoData, FALSE),
    ServiceCall("lock", Unlock, StrEntity(LockFrontDoor), NoData, FALSE) }

\* get_state and unknown functions take no command
ArgumentsOf(name) == IF name = "call_service" THEN FunctionCommands ELSE {NoServiceCall}

FunctionNext ==
  \/ openaiWs = "none" /\ OpenAIConnect
  \/ OpenAIOpen
  \/ OpenAIClose
  \/ \E name \in FunctionNames : \E args \in ArgumentsOf(name) : HandleFunctionCall(name, args)
  \/ \E c \in 1..Len(calls) : CallServiceResume(c)
  \/ \E k \in 1..Len(functionCalls) : FunctionCallResume(k)
  \/ ConnectOnce
  \/ \E s \in 1..Len(sockets) : WsOpen(s)
  \/ \E s \in 1..Len(sockets), message \in Responses : WsMessage(s, message)
  \/ \E c \in 1..Len(calls) : TimeoutFire(c)
  \/ Tick

FunctionSpec == ClientInit /\ [][FunctionNext]_vars

\* Lifecycle: start() and shutdown() are called at any time, one start() at a
\* time; the servers come to listen, the OpenAI socket opens or fails, and the
\* remote controller accepts or rejects the bridge's credential or its socket
\* fails.
LifecycleNext ==
  \/ Len(sockets) < MaxConnects /\ Start
  \/ WyomingListens
  \/ HttpListens
  \/ OpenAIOpen
  \/ OpenAIError
  \/ \E s \in 1..Len(sockets) : WsOpen(s)
  \/ \E s \in 1..Len(sockets) : WsError(s)
  \/ \E s \in 1..Len(sockets), message \in ControlFrames :
       FollowsHandshake(s, message) /\ WsMessage(s, message)
  \/ StartResume
  \/ Shutdown
  \/ ShutdownResume

LifecycleSpec == ClientInit /\ [][LifecycleNext]_vars

\* Control API: the four routes are requested in any order, /start_ptt with
\* every kind of timeout_ms
Timeouts ==
  {NoTimeout, NotANumber}
  \cup {NumberMs(n) : n \in {MinTimeoutMs - 1, MinTimeoutMs, MaxTimeoutMs, MaxTimeoutMs + 1}}

ControlNext ==
  \/ \E timeout_ms \in Timeouts : StartPtt(timeout_ms)
  \/ StopPtt
  \/ ToggleVad
  \/ GetStatus

ControlSpec == ClientInit /\ [][ControlNext]_vars

(***************************************************************************)
(* Properties of dispatch (Spec)                                           *)
(***************************************************************************)
IsCallService(call) == call.op = "call_service"

\* call c is validated by this step (callService up to its await)
Validated(c) == c = Len(calls) + 1 /\ Len(calls') = c /\ IsCallService(calls'[c])

\* call c is resumed by this step (callService after its await)
Resumed(c) == c \in 1..Len(calls) /\ calls[c].pc = "validating" /\ calls'[c].pc # "validating"

LastAudit == auditEntries[Len(auditEntries)]

\* the targets of a command, as the spec counts them
TargetsOf(entity_id) ==
  IF entity_id.kind = "array" THEN {entity_id.arr[i] : i \in 1..Len(entity_id.arr)}
  ELSE IF entity_id.kind = "string" THEN {entity_id.str}
  ELSE {}

\* C1: a command whose domain is not in allowedDomains is denied with the
\* domain-not-allowed reason; its validation appends exactly one audit entry,
\* tagged domain_not_allowed; it is never given a request id, never recorded as
\* pending, and no frame is sent for it.
C1_DomainNotAllowed ==
  [][\A c \in 1..Len(calls') :
       (IsCallService(calls'[c]) /\ calls'[c].serviceCall.domain \notin config.allowedDomains)
       => /\ Validated(c) =>
               /\ auditPushed' = auditPushed + 1
               /\ LastAudit'.violation_type = "domain_not_allowed"
               /\ ~LastAudit'.allowed
               /\ UNCHANGED clientVars
          /\ Resumed(c) =>
               /\ calls'[c].outcome =
                    [kind |-> "rejected", message |-> DomainReason(calls[c].serviceCall.domain)]
               /\ UNCHANGED <<clientVars, auditPushed, auditEntries>>
          /\ calls'[c].id = 0
          /\ calls'[c].pc \in {"validating", "settled"}]_vars

C1_Witness ==
  \E c \in 1..Len(calls) :
    /\ IsCallService(calls[c])
    /\ calls[c].serviceCall.domain \notin config.allowedDomains
    /\ calls[c].pc = "settled"

\* the policy checks as the spec states them
PassesDomainCheck(serviceCall) == serviceCall.domain \in config.allowedDomains

PassesEntityCheck(serviceCall) ==
  config.entityWhitelist = {} \/ TargetsOf(serviceCall.entity_id) \subseteq config.entityWhitelist

IsEntityDenial(c) ==
  /\ Validated(c) =>
       /\ auditPushed' = auditPushed + 1
       /\ LastAudit'.violation_type = "entity_not_allowed"
       /\ ~LastAudit'.allowed
       /\ UNCHANGED clientVars
  /\ Resumed(c) =>
       /\ calls'[c].outcome.kind = "rejected"
       /\ \E t \in TargetsOf(calls[c].serviceCall.entity_id) \ config.entityWhitelist :
            calls'[c].outcome.message = EntityReason(t)
       /\ UNCHANGED clientVars
  /\ calls'[c].id = 0
  /\ calls'[c].pc \in {"validating", "settled"}

\* C2 as claimed: with a non-empty entityAllowList, every command that carries a
\* targetId (a non-empty string or a list) with a target outside the list is
\* denied as entity-not-allowed, audited as such, and never reaches the protocol
\* client.
C2_AsClaimed ==
  [][\A c \in 1..Len(calls') :
       (/\ IsCallService(calls'[c])
        /\ config.entityWhitelist # {}
        /\ Truthy(calls'[c].serviceCall.entity_id)
        /\ ~PassesEntityCheck(calls'[c].serviceCall))
       => IsEntityDenial(c)]_vars

\* C2 (amended): with a non-empty entityAllowList, every command whose domain is in
\* allowedDomains and that carries a non-empty targetId with a target outside the
\* list is denied with the entity-not-allowed reason naming such a target; its
\* validation appends one audit entry tagged entity_not_allowed, and it never
\* reaches the protocol client.
C2_EntityNotAllowed ==
  [][\A c \in 1..Len(calls') :
       (/\ IsCallService(calls'[c])
        /\ PassesDomainCheck(calls'[c].serviceCall)
        /\ config.entityWhitelist # {}
        /\ Truthy(calls'[c].serviceCall.entity_id)
        /\ ~PassesEntityCheck(calls'[c].serviceCall))
       => IsEntityDenial(c)]_vars

C2_Witness ==
  \E c \in 1..Len(calls) :
    /\ IsCallService(calls[c])
    /\ PassesDomainCheck(calls[c].serviceCall)
    /\ config.entityWhitelist # {}
    /\ calls[c].serviceCall.entity_id.kind = "array"
    /\ ~PassesEntityCheck(calls[c].serviceCall)
    /\ calls[c].pc = "settled"

\* C3 as claimed: a high-risk command that passes the domain and entity checks
\* while confirmation is required gets, unconfirmed, a confirmation-required
\* verdict with a non-empty prompt and, confirmed, an allow verdict and a request
\* handed to the protocol client.
C3_ConfirmThenExecute ==
  [][\A c \in 1..Len(calls') :
       (/\ IsCallService(calls'[c])
        /\ isHighRiskAction(calls'[c].serviceCall)
        /\ config.confirmHighRiskActions
        /\ PassesDomainCheck(calls'[c].serviceCall)
        /\ PassesEntityCheck(calls'[c].serviceCall))
       => IF ~calls'[c].serviceCall.confirmed
          THEN /\ Validated(c) =>
                    /\ calls'[c].validation.requiresConfirmation
                    /\ calls'[c].validation.confirmationPrompt # <<>>
               /\ Resumed(c) =>
                    /\ calls'[c].outcome = [kind |-> "rejected", message |-> ConfirmationReason]
                    /\ UNCHANGED clientVars
          ELSE /\ Validated(c) => calls'[c].validation.allowed
               /\ Resumed(c) =>
                    /\ calls'[c].pc = "pending"
                    /\ calls'[c].id = messageId
                    /\ calls'[c].id \in DOMAIN pendingRequests']_vars

\* C4: when a call_service ends in a non-allow verdict (denial or confirmation
\* required), neither its validation nor its return changes the request id
\* counter, the pending request table or the frames sent, and the call holds no
\* request id and no timer.
C4_DenialLeavesClientAlone ==
  [][\A c \in 1..Len(calls') :
       /\ (Validated(c) /\ ~calls'[c].validation.allowed) => UNCHANGED clientVars
       /\ (Resumed(c) /\ ~calls[c].validation.allowed) =>
            /\ UNCHANGED clientVars
            /\ calls'[c].pc = "settled"
            /\ calls'[c].outcome.kind = "rejected"
            /\ calls'[c].id = 0
            /\ calls'[c].timer = "none"]_vars

C4_Witness ==
  /\ \E c \in 1..Len(calls) :
       /\ calls[c].pc = "settled"
       /\ calls[c].validation.requiresConfirmation
       /\ calls[c].outcome.kind = "rejected"
  /\ \E c \in 1..Len(calls) :
       /\ calls[c].pc = "settled"
       /\ ~calls[c].validation.allowed
       /\ ~calls[c].validation.requiresConfirmation

\* C5 as claimed: every call_service that got a denial or a confirmation-required
\* verdict has an audit entry for its command, recorded as not allowed, in the
\* audit log from the moment the verdict exists.
C5_DenialsAudited ==
  \A c \in 1..Len(calls) :
    (IsCallService(calls[c]) /\ calls[c].pc # "pending" /\ ~calls[c].validation.allowed)
    => \E i \in 1..Len(auditEntries) :
         /\ auditEntries[i].domain = calls[c].serviceCall.domain
         /\ auditEntries[i].service = calls[c].serviceCall.service
         /\ ~auditEntries[i].allowed

\* the call_service frames written to a socket for call c
FramesOf(c) ==
  {i \in 1..Len(sent) : sent[i].frame.type = "call_service" /\ sent[i].frame.id = calls[c].id}

\* C15 as claimed: the target entity id in the call_service frame of an allowed
\* command is the sanitized targetId of its verdict, never the raw one.
C15_WireCarriesSanitizedTarget ==
  \A c \in 1..Len(calls) :
    (IsCallService(calls[c]) /\ calls[c].validation.allowed) =>
      \A i \in FramesOf(c) :
        Truthy(sent[i].frame.call.entity_id) =>
          /\ sent[i].frame.call.entity_id.kind = "string"
          /\ calls[c].validation.sanitizedEntityId.present
          /\ sent[i].frame.call.entity_id.str = calls[c].validation.sanitizedEntityId.str

\* C16 as claimed: a command that passes the domain check and the entity
\* check, and is not high-risk, or is confirmed, or is evaluated with
\* confirmHighRiskActions off, gets the verdict allow, a command whose targetId
\* is a list included.
C16_PassingCommandAllowed ==
  \A c \in 1..Len(calls) :
    (/\ IsCallService(calls[c])
     /\ PassesDomainCheck(calls[c].serviceCall)
     /\ PassesEntityCheck(calls[c].serviceCall)
     /\ \/ ~isHighRiskAction(calls[c].serviceCall)
        \/ calls[c].serviceCall.confirmed
        \/ ~config.confirmHighRiskActions)
    => calls[c].validation.allowed

\* what the caller of callService gets: the promise's outcome, an Error with
\* its message when rejected
PolicyRefused(c) ==
  IsCallService(calls[c]) /\ calls[c].pc = "settled" /\ ~calls[c].validation.allowed

ClientFailed(c) ==
  /\ IsCallService(calls[c])
  /\ calls[c].pc = "settled"
  /\ calls[c].validation.allowed
  /\ calls[c].outcome.kind = "rejected"

\* C17 as claimed: the outcome of a dispatch that failed in the protocol client
\* (timeout, connection lost, rejected by the remote controller) differs from
\* the outcome of every dispatch refused by the policy (denial or confirmation
\* required), whatever message the remote controller supplies.
C17_FailureKindsDistinct ==
  \A c1, c2 \in 1..Len(calls) :
    (PolicyRefused(c1) /\ ClientFailed(c2)) => calls[c1].outcome # calls[c2].outcome

(***************************************************************************)
(* Properties of the protocol client (ClientSpec)                          *)
(***************************************************************************)
\* call c takes its request id in this step
Issued(c) == calls'[c].id # 0 /\ (c > Len(calls) \/ calls[c].id = 0)

Ready == connected /\ wsOpen

TimeoutOutcome == [kind |-> "rejected", message |-> <<"Request timeout">>]

\* C6: the request ids taken by callService, getStates, subscribeEvents and
\* unsubscribeEvents are strictly increasing in the order they are taken, no two
\* requests ever hold the same id, and every pending request has the table entry
\* of its id to itself.
C6_RequestIdsUnique ==
  /\ \A i, j \in 1..Len(issued) : i < j => issued[i] < issued[j]
  /\ \A c1, c2 \in 1..Len(calls) :
       (c1 # c2 /\ calls[c1].id # 0) => calls[c1].id # calls[c2].id
  /\ \A c \in 1..Len(calls) :
       calls[c].pc = "pending" =>
         /\ calls[c].id \in DOMAIN pendingRequests
         /\ pendingRequests[calls[c].id] = c

C6_Witness ==
  /\ Cardinality(DOMAIN pendingRequests) >= 2
  /\ \E c1, c2 \in 1..Len(calls) :
       /\ c1 < c2
       /\ IsCallService(calls[c1])
       /\ calls[c1].pc = "pending"
       /\ calls[c2].pc = "pending"
       /\ calls[c1].id > calls[c2].id

\* C7: a result frame whose id belongs to no request that is still waiting
\* (the id was never issued, or its request was already settled by a response or
\* by its timeout) changes nothing: no pending request is removed, no outcome
\* changes, the connection state stays as it is.
C7_StaleResponseIgnored ==
  [][\A s \in 1..Len(sockets), message \in InboundFrames :
       (/\ message.type = "result"
        /\ ~\E c \in 1..Len(calls) : calls[c].pc = "pending" /\ calls[c].id = message.id
        /\ WsMessage(s, message))
       => UNCHANGED vars]_vars

C7_Witness ==
  /\ \E s \in 1..Len(sockets) : sockets[s].state = "open"
  /\ \E c \in 1..Len(calls) : calls[c].outcome = TimeoutOutcome
  /\ \E c \in 1..Len(calls) : calls[c].outcome.kind = "resolved"
  /\ ~MicrotaskPending
  /\ ~running

\* C8: a request's timer fires only at or after its deadline (issue time plus
\* the timeout, 5000 ms when none is given); when it fires the request is
\* rejected with "Request timeout" and its entry leaves the pending table; from
\* then on the request's outcome never changes and its id never is in the table,
\* whatever response arrives.
C8_TimeoutAtDeadline ==
  [][\A c \in 1..Len(calls') :
       /\ Issued(c) =>
            /\ calls'[c].timer = "armed"
            /\ calls'[c].timeout = 0 => calls'[c].deadline = now + DefaultTimeout
       /\ (c <= Len(calls) /\ calls[c].timer = "armed" /\ calls'[c].timer = "fired") =>
            /\ now >= calls[c].deadline
            /\ calls'[c].outcome = TimeoutOutcome
            /\ calls[c].id \notin DOMAIN pendingRequests'
       /\ (c <= Len(calls) /\ calls[c].timer = "fired") =>
            /\ calls'[c] = calls[c]
            /\ calls[c].id \notin DOMAIN pendingRequests']_vars

C8_Witness ==
  \E c \in 1..Len(calls) :
    /\ calls[c].timer = "fired"
    /\ calls[c].outcome = TimeoutOutcome
    /\ now >= calls[c].deadline
    /\ \E s \in 1..Len(sockets) : sockets[s].state = "open"

\* C9 as claimed: when the socket closes while the connection is Ready, the
\* connection becomes disconnected, every pending request is rejected and the
\* pending table is empty afterwards.  Stated for the closes at which every
\* pending request is in flight on the closing socket.
InFlightOn(s, id) == \E i \in 1..Len(sent) : sent[i].socket = s /\ sent[i].frame.id = id

C9_CloseFailsPending ==
  [][\A s \in 1..Len(sockets) :
       (/\ Ready
        /\ s = ws
        /\ \A id \in DOMAIN pendingRequests : InFlightOn(s, id)
        /\ WsClose(s))
       => /\ ~connected'
          /\ DOMAIN pendingRequests' = {}
          /\ \A c \in 1..Len(calls) :
               calls[c].pc = "pending" => calls'[c].outcome.kind = "rejected"]_vars

\* C10 as claimed: a request issued while the connection is not Ready is rejected
\* at once and is not recorded in the pending table.
C10_NotReadyFailsFast ==
  [][\A c \in 1..Len(calls') :
       (Issued(c) /\ ~Ready)
       => /\ calls'[c].outcome.kind = "rejected"
          /\ calls'[c].id \notin DOMAIN pendingRequests']_vars

\* the socket of the current connect() call has had its authentication rejected
AuthRejected(s) ==
  s = ws /\ ~sockets[s].onceAuthInvalid /\ sockets[s].promise = "rejected"

\* C11 as claimed: an auth_invalid frame rejects the connect() call that is
\* waiting on the socket, and from then on, while no new connect() is made, the
\* connection is not Ready and no frame is written to the socket.
C11_AuthRejectedBlocksRequests ==
  [][\A s \in 1..Len(sockets) :
       /\ (\E message \in InboundFrames :
             /\ message.type = "auth_invalid"
             /\ FollowsHandshake(s, message)
             /\ WsMessage(s, message))
          => (sockets'[s].promise = "rejected" /\ ~connected')
       /\ AuthRejected(s) => (~connected' /\ sent' = sent)]_vars

(***************************************************************************)
(* Progress of the protocol client                                         *)
(***************************************************************************)
\* The event loop runs every continuation that is ready and every timer
\* callback that is due, and time passes.  Nothing obliges the remote
\* controller to send a frame or the transport to raise an event.
FairClientSpec ==
  /\ ClientSpec
  /\ WF_vars(Tick)
  /\ \A c \in 1..MaxCalls : WF_vars(CallServiceResume(c))
  /\ \A c \in 1..MaxCalls : WF_vars(TimeoutFire(c))

ConnectSettled(s) == Len(sockets) >= s /\ sockets[s].promise # "pending"
ConnectWaiting(s) == Len(sockets) >= s /\ sockets[s].promise = "pending"
RequestMade(c) == Len(calls) >= c
RequestSettled(c) == Len(calls) >= c /\ calls[c].pc = "settled"

\* The half of C12 about requests: every request made of the bridge is settled
\* in the end, by its response or by its timer.
ExecuteEventuallySettles == \A c \in 1..MaxCalls : RequestMade(c) ~> RequestSettled(c)

\* C12 as claimed: every connect() call is resolved or rejected in the end, even
\* if the remote controller sends nothing, and every request is settled in the
\* end.
C12_NoOperationBlocksForever ==
  /\ ConnectWaiting(1) ~> ConnectSettled(1)
  /\ ExecuteEventuallySettles

(***************************************************************************)
(* Properties of the audit log (AuditSpec)                                 *)
(***************************************************************************)
\* the k-th entry pushed in AuditSpec
PushedEntry(k) ==
  validateServiceCall(AuditConfig, AuditCommands[((k - 1) % Len(AuditCommands)) + 1]).appended[1]

Min(a, b) == IF a < b THEN a ELSE b

\* the last n of the entries pushed so far, oldest first
LastPushed(n) == [k \in 1..n |-> PushedEntry(auditPushed - n + k)]

\* C13: the audit log never holds more than AuditCapacity entries; it holds the
\* last min(pushed, AuditCapacity) entries pushed, in the order they were pushed
\* (so once it is full each push evicts exactly the oldest entry), and
\* getAuditLog(AuditCapacity) returns exactly those: after AuditCapacity + 1
\* pushes the answer starts at the second entry pushed and the first is gone.
C13_AuditLogBounded ==
  /\ Len(auditEntries) <= AuditCapacity
  /\ auditEntries = LastPushed(Min(auditPushed, AuditCapacity))
  /\ (recent.asked /\ recent.limit = AuditCapacity) =>
       /\ recent.entries = LastPushed(Min(auditPushed, AuditCapacity))
       /\ auditPushed = AuditCapacity + 1 =>
            /\ recent.entries[1] = PushedEntry(2)
            /\ recent.entries[1] # PushedEntry(1)

C13_Witness ==
  /\ auditPushed = AuditCapacity + 1
  /\ recent.asked
  /\ recent.limit = AuditCapacity
  /\ Len(recent.entries) = AuditCapacity
  /\ recent.entries[AuditCapacity] = PushedEntry(AuditCapacity + 1)

\* C14 as claimed: whatever the limit, 0 included, getAuditLog(limit) returns
\* the last entries of the log, oldest first, and at most min(limit,
\* AuditCapacity) of them.
C14_RecentWithinLimit ==
  recent.asked =>
    /\ Len(recent.entries) <= Min(recent.limit, AuditCapacity)
    /\ recent.entries = SliceLast(auditEntries, Len(recent.entries))

(***************************************************************************)
(* Correlation of concurrent requests (ClientSpec)                         *)
(***************************************************************************)
\* what handleResponse hands to the promise of the request a frame cites
OutcomeOf(message) ==
  IF message.success
  THEN [kind |-> "resolved", message |-> message.result]
  ELSE [kind |-> "rejected",
        message |-> IF message.error # <<>> THEN message.error ELSE UnknownError]

\* C18: a result frame citing the id of a pending request settles that request
\* and no other: the request is the one that took the id, it is resolved with
\* the frame's result or rejected with the error the remote controller
\* reported, its entry leaves the table, and every other request, pending or
\* not, and every other entry of the table is as before, in whatever order the
\* responses arrive.
C18_ResponseSettlesItsRequest ==
  [][\A s \in 1..Len(sockets), message \in InboundFrames :
       (/\ message.type = "result"
        /\ message.id \in DOMAIN pendingRequests
        /\ WsMessage(s, message))
       => LET c == pendingRequests[message.id]
          IN /\ calls[c].id = message.id
             /\ calls[c].pc = "pending"
             /\ calls'[c].outcome = OutcomeOf(message)
             /\ calls'[c].pc = "settled"
             /\ \A k \in 1..Len(calls) : k # c => calls'[k] = calls[k]
             /\ DOMAIN pendingRequests' = DOMAIN pendingRequests \ {message.id}
             /\ \A id \in DOMAIN pendingRequests' : pendingRequests'[id] = pendingRequests[id]]_vars

\* two requests were outstanding and the later one was answered first
C18_Witness ==
  /\ Len(calls) = 2
  /\ calls[1].pc = "pending"
  /\ calls[1].id = 1
  /\ calls[2].id = 2
  /\ calls[2].timer = "cleared"
  /\ calls[2].outcome = [kind |-> "rejected", message |-> <<"Service not found">>]
  /\ pendingRequests = MapSet(<<>>, 1, 1)

(***************************************************************************)
(* Properties of the event fan-out (EventSpec)                             *)
(***************************************************************************)
Deliveries == {delivered[k] : k \in 1..Len(delivered)}

\* C19 as claimed: an event frame of a recognised type is delivered to every
\* listener registered for its type when it is dispatched, whether or not
\* another listener fails.
C19_EveryListenerIsCalled ==
  [][\A s \in 1..Len(sockets), message \in EventFrames :
       WsMessage(s, message)
       => \A i \in 1..Len(listeners) :
            listeners[i].type = message.event.event_type
            => \E k \in 1..Len(delivered') :
                 delivered'[k] = [frame |-> emitted', listener |-> i]]_vars

\* C20: no listener is called twice for one event frame, and a listener is
\* called only for the frames dispatched after it was registered: nothing is
\* kept for later.
C20_AtMostOnceUnbuffered ==
  /\ \A k1, k2 \in 1..Len(delivered) : k1 # k2 => delivered[k1] # delivered[k2]
  /\ \A k \in 1..Len(delivered) :
       /\ delivered[k].listener \in 1..Len(listeners)
       /\ delivered[k].frame > listeners[delivered[k].listener].since
       /\ delivered[k].frame <= emitted

\* a listener added between two frames got the second and not the first, and
\* the listener added before both got each once
C20_Witness ==
  /\ emitted = 2
  /\ Len(listeners) = 2
  /\ listeners[1].type = listeners[2].type
  /\ listeners[1].since = 0
  /\ listeners[2].since = 1
  /\ Deliveries = {[frame |-> 1, listener |-> 1], [frame |-> 2, listener |-> 1],
                   [frame |-> 2, listener |-> 2]}
  /\ Len(delivered) = 3

(***************************************************************************)
(* Properties of the frame handler (Spec)                                  *)
(***************************************************************************)
\* C21: a frame the handler cannot read (data that is not JSON, an event frame
\* without its body) is dropped: the handler emits 'message_error' and nothing
\* else changes - the sockets and the connected flag, the pending requests,
\* every call and its outcome, the frames sent - and the frames that come after
\* it are still handled.
C21_MalformedFrameDropped ==
  [][\A s \in 1..Len(sockets), message \in InboundFrames :
       (IsMalformed(message) /\ WsMessage(s, message))
       => /\ messageErrors' = messageErrors + 1
          /\ UNCHANGED <<connectionVars, reconnecting, clientVars, calls, securityVars>>
          /\ \A later \in InboundFrames :
               ENABLED WsMessage(s, later) => (ENABLED WsMessage(s, later))']_vars

\* a frame was dropped on the socket of a request, the socket is still open and
\* the bridge connected, and the request was settled by its response
C21_Witness ==
  /\ messageErrors > 0
  /\ \E c \in 1..Len(calls) :
       /\ IsCallService(calls[c])
       /\ calls[c].outcome.kind = "resolved"
       /\ \A k \in 1..Len(calls) : calls[k].outcome.kind # "rejected"
  /\ wsOpen
  /\ connected

(***************************************************************************)
(* No reconnection, no retry (Spec)                                        *)
(***************************************************************************)
\* the sockets a transport error or close has ended
Lost == {s \in 1..Len(sockets) : sockets[s].state \in {"errored", "closed"}}

\* C22: the bridge opens a socket only in connect(): no step other than a call
\* of connect() creates one or changes this.ws to another socket, also after a
\* socket was lost; isReconnecting() is false in every state; and the
\* call_service frames on the wire that carry the id of a dispatch are at most
\* one, whether the dispatch is waiting, timed out, lost its connection or was
\* rejected by the remote controller.
C22_NoReconnectNoRetry ==
  [][/\ (Len(sockets') # Len(sockets) \/ ws' \notin {ws, 0}) => Connect
     /\ ~reconnecting /\ ~reconnecting'
     /\ \A c \in 1..Len(calls') :
          Cardinality({i \in 1..Len(sent') :
                         /\ sent'[i].frame.type = "call_service"
                         /\ sent'[i].frame.id = calls'[c].id}) <= 1]_vars

\* the one socket was lost after a dispatch had timed out, and the wire carries
\* the one frame of that dispatch
C22_Witness ==
  /\ Len(sockets) = 1
  /\ Lost = {1}
  /\ \E c \in 1..Len(calls) :
       /\ IsCallService(calls[c])
       /\ calls[c].outcome = TimeoutOutcome
       /\ Cardinality(FramesOf(c)) = 1

(***************************************************************************)
(* Configuration updates (ConfigSpec)                                      *)
(***************************************************************************)
\* the verdict of a command under a configuration, said in the words of the
\* three checks: which check denies it, or that it is allowed, or that it needs
\* confirmation
Outcome(cfg, serviceCall) ==
  IF serviceCall.domain \notin cfg.allowedDomains THEN "domain"
  ELSE IF cfg.entityWhitelist # {} /\ serviceCall.entity_id.str \notin cfg.entityWhitelist
  THEN "entity"
  ELSE IF cfg.confirmHighRiskActions /\ serviceCall.service = Unlock THEN "confirm"
  ELSE "allow"

OutcomeOfVerdict(validation) ==
  IF validation.allowed THEN "allow"
  ELSE IF validation.requiresConfirmation THEN "confirm"
  ELSE IF \E domain \in {"light", "lock", "switch"} : validation.reason = DomainReason(domain)
  THEN "domain"
  ELSE "entity"

\* C23: a dispatch evaluates its three checks against the configuration in
\* force when it is made, as a whole: its verdict is the one the three checks
\* give under that configuration, and the dispatch leaves the configuration
\* alone.  An update installs every field it gives and keeps the others, in one
\* step, so the dispatch that follows is judged by the new configuration.
C23_UpdateAtomic ==
  [][/\ \A serviceCall \in ConfigCommands :
          CallService(serviceCall, 0)
          => /\ OutcomeOfVerdict(calls'[Len(calls')].validation) = Outcome(config, serviceCall)
             /\ config' = config
     /\ \A newConfig \in ConfigUpdates :
          UpdateConfig(newConfig)
          => /\ \A f \in DOMAIN newConfig : config'[f] = newConfig[f]
             /\ \A f \in DOMAIN config \ DOMAIN newConfig : config'[f] = config[f]
             /\ DOMAIN config' = DOMAIN config
             /\ \A serviceCall \in ConfigCommands :
                  ENABLED CallService(serviceCall, 0)
                  => OutcomeOfVerdict(validateServiceCall(config', serviceCall).validation)
                       = Outcome(mergeConfig(config, newConfig), serviceCall)]_vars

\* the same command was dispatched before and after an update, the first
\* dispatch still waiting for its continuation: the first was denied under the
\* old configuration and the second allowed under the new one
C23_Witness ==
  /\ Len(calls) = 2
  /\ calls[1].serviceCall = calls[2].serviceCall
  /\ calls[1].pc = "validating"
  /\ ~calls[1].validation.allowed
  /\ calls[2].validation.allowed
  /\ Updates = 1

(***************************************************************************)
(* Event fan-out and the frame handler (FanoutSpec)                        *)
(***************************************************************************)
\* the requests whose frame went out on the open socket and that still wait
AwaitingResponse ==
  {c \in 1..Len(calls) : calls[c].pc = "pending" /\ wsOpen /\ InFlightOn(ws, calls[c].id)}

\* C24 as claimed: the response frame of a request in flight can be handled in
\* every state, also while a listener of an event frame has not returned yet.
C24_FanoutDoesNotBlock ==
  \A c \in AwaitingResponse : ENABLED WsMessage(ws, ResponseTo(c))

(***************************************************************************)
(* Properties of the policy (PolicySpec)                                   *)
(***************************************************************************)
\* the command of the last verdict reached the risk check with confirmation
\* required: its domain is allowed and every target it names is on the
\* allow-list, if there is one
PassedChecks ==
  /\ verdict.asked
  /\ PassesDomainCheck(verdict.serviceCall)
  /\ PassesEntityCheck(verdict.serviceCall)
  /\ config.confirmHighRiskActions

\* high-risk by domain, action or target
RiskyByDomainActionTarget(serviceCall) ==
  \/ serviceCall.domain \in {"alarm_control_panel", "lock", "cover", "climate", "vacuum"}
  \/ serviceCall.service \in {<<"turn", "_", "off">>, <<"unlock">>, <<"open", "_", "cover">>,
                               <<"alarm", "_", "disarm">>}
  \/ serviceCall.entity_id = StrEntity(<<"all">>)
  \/ serviceCall.entity_id.kind = "array" /\ Len(serviceCall.entity_id.arr) > 5

OutOfBand(t) == t < 10 \/ t > 30

C26_OutOfBandTemperature ==
  (/\ PassedChecks
   /\ ~verdict.serviceCall.confirmed
   /\ verdict.serviceCall.service = <<"set", "_", "temperature">>
   /\ verdict.serviceCall.data.hasTemperature)
  => /\ OutOfBand(verdict.serviceCall.data.temperature)
          => verdict.validation.requiresConfirmation
     /\ (/\ ~OutOfBand(verdict.serviceCall.data.temperature)
         /\ ~RiskyByDomainActionTarget(verdict.serviceCall))
          => ~verdict.validation.requiresConfirmation

\* s has the tokens of sub, in their order, one after the other
Contains(s, sub) ==
  \E i \in 0..(Len(s) - Len(sub)) : SubSeq(s, i + 1, i + Len(sub)) = sub

\* the name a target is spoken by: "front door" for lock.front_door
SpokenName(entityId) ==
  LET name == SubSeq(entityId, 3, Len(entityId))
  IN [i \in 1..Len(name) |-> IF name[i] = "_" THEN " " ELSE name[i]]

\* C27 as claimed: the prompt of a command that must be confirmed is not empty;
\* for one target, given as a string or as a list of one id, it has the spoken
\* name of the target; for "all" it says ALL and the domain, and for a list of
\* more than one id the number of ids and the domain.
C27_PromptNamesTarget ==
  (verdict.asked /\ verdict.validation.requiresConfirmation)
  => LET entity_id == verdict.serviceCall.entity_id
         prompt == verdict.validation.confirmationPrompt
     IN /\ prompt # <<>>
        /\ (entity_id.kind = "string" /\ entity_id.str \notin {<<>>, <<"all">>})
             => Contains(prompt, SpokenName(entity_id.str))
        /\ (entity_id.kind = "array" /\ Len(entity_id.arr) = 1)
             => Contains(prompt, SpokenName(entity_id.arr[1]))
        /\ entity_id = StrEntity(<<"all">>)
             => Contains(prompt, <<" ALL ", verdict.serviceCall.domain>>)
        /\ (entity_id.kind = "array" /\ Len(entity_id.arr) > 1)
             => Contains(prompt, <<ToString(Len(entity_id.arr)), " ",
                                   verdict.serviceCall.domain>>)

\* C28 as claimed: a high-risk command with confirmed = true that passes the
\* domain and entity checks while confirmation is required appends the
\* high_risk_confirmed entry (allowed, confirmed) and then the validated entry,
\* and is allowed.
C28_ConfirmationHonored ==
  (/\ PassedChecks
   /\ verdict.serviceCall.confirmed
   /\ RiskyByDomainActionTarget(verdict.serviceCall))
  => /\ Len(verdict.appended) = 2
     /\ verdict.appended[1].action = "high_risk_confirmed"
     /\ verdict.appended[1].allowed
     /\ verdict.appended[1].confirmed
     /\ verdict.appended[2].action = "service_call_validation"
     /\ verdict.appended[2].allowed
     /\ verdict.validation.allowed

\* the targets a command names, as a list
TargetList(entity_id) ==
  IF entity_id.kind = "array" THEN entity_id.arr
  ELSE IF entity_id.kind = "string" /\ entity_id.str # <<>> THEN <<entity_id.str>>
  ELSE <<>>

\* C29: a command whose domain is not allowed is denied with the one
\* domain_not_allowed entry, whatever its targets; a command of an allowed
\* domain with a target that is not on the allow-list is denied with the one
\* entity_not_allowed entry, which names the first such target of the command;
\* neither is asked to be confirmed nor given a prompt, however risky it is.
C29_ChecksInOrder ==
  verdict.asked
  => LET serviceCall == verdict.serviceCall
         targets == TargetList(serviceCall.entity_id)
     IN /\ ~PassesDomainCheck(serviceCall)
             => /\ Len(verdict.appended) = 1
                /\ verdict.appended[1].violation_type = "domain_not_allowed"
                /\ ~verdict.validation.allowed
                /\ ~verdict.validation.requiresConfirmation
                /\ verdict.validation.confirmationPrompt = <<>>
        /\ (PassesDomainCheck(serviceCall) /\ ~PassesEntityCheck(serviceCall))
             => /\ Len(verdict.appended) = 1
                /\ verdict.appended[1].violation_type = "entity_not_allowed"
                /\ \E i \in 1..Len(targets) :
                     /\ targets[i] \notin config.entityWhitelist
                     /\ \A j \in 1..(i - 1) : targets[j] \in config.entityWhitelist
                     /\ verdict.appended[1].entity_id = StrEntity(targets[i])
                     /\ verdict.validation.reason = EntityReason(targets[i])
                /\ ~verdict.validation.allowed
                /\ ~verdict.validation.requiresConfirmation
                /\ verdict.validation.confirmationPrompt = <<>>

\* a high-risk command that fails the domain check, and would fail the entity
\* check with its first target, was denied for its domain
C29_Witness ==
  /\ verdict.asked
  /\ ~PassesDomainCheck(verdict.serviceCall)
  /\ ~PassesEntityCheck(verdict.serviceCall)
  /\ RiskyByDomainActionTarget(verdict.serviceCall)
  /\ config.confirmHighRiskActions
  /\ verdict.appended # <<>>
  /\ verdict.appended[1].violation_type = "domain_not_allowed"

C31_SettledExactlyOnce ==
  [][\A c \in 1..Len(calls) :
       /\ calls[c].outcome.kind # "none" => calls'[c].outcome = calls[c].outcome
       /\ calls[c].pc = "pending"
            => /\ calls[c].timer = "armed"
               /\ calls[c].id \in DOMAIN pendingRequests
               /\ pendingRequests[calls[c].id] = c
       /\ calls[c].pc = "settled"
            => /\ calls[c].timer \in {"cleared", "fired"}
               /\ \A id \in DOMAIN pendingRequests : pendingRequests[id] # c
               /\ calls[c].timer = "cleared" <=> calls[c].outcome # TimeoutOutcome
       /\ (calls[c].pc = "pending" /\ calls'[c].pc = "settled")
            => calls'[c].id \notin DOMAIN pendingRequests']_vars

\* of two requests, one was answered and its response came again after the
\* deadline, the other timed out and was answered late: the first is resolved,
\* the second rejected by its timeout
C31_Witness ==
  /\ Len(calls) = 2
  /\ calls[1].outcome.kind = "resolved"
  /\ calls[1].timer = "cleared"
  /\ calls[2].outcome = TimeoutOutcome
  /\ calls[2].timer = "fired"
  /\ now >= calls[1].deadline
  /\ pendingRequests = <<>>

(***************************************************************************)
(* The handshake (Spec)                                                    *)
(***************************************************************************)
ControlFrame(type) == Frame(type, 0, FALSE, <<>>, <<>>, NoEvent)

AuthFramesOn(log, s) ==
  Cardinality({i \in 1..Len(log) : log[i].socket = s /\ log[i].frame.type = "auth"})

Fired(flag) == {k \in 1..Len(sockets) : sockets[k][flag] /\ ~sockets'[k][flag]}

\* C35 as claimed: whatever connect() calls were made before, the step that
\* handles auth_required sends exactly one auth frame, and the step that
\* handles auth_ok runs exactly one 'auth_ok' listener (one 'connected'
\* notification), the one of the connect() that made the socket.
C35_OneListenerPerFrame ==
  [][\A s \in 1..Len(sockets) :
       /\ (s = ws /\ WsMessage(s, ControlFrame("auth_required")))
            => Len(sent') = Len(sent) + 1
       /\ WsMessage(s, ControlFrame("auth_ok")) => Fired("onceAuthOk") = {s}]_vars

\* C36 as claimed: a close event or a control frame of a socket that is not the
\* current one leaves `connected` as it is, and `connected` is true exactly
\* when the current socket has had auth_ok and is not closed.
C36_SupersededSocketIgnored ==
  [][/\ \A s \in 1..Len(sockets) :
          (/\ s # ws
           /\ \/ WsClose(s)
              \/ \E message \in ControlFrames : WsMessage(s, message))
          => connected' = connected
     /\ connected' <=> (/\ ws' # 0
                         /\ "auth_ok" \in sockets'[ws'].heard
                         /\ sockets'[ws'].state # "closed")]_vars


\* the commands of the call_service frames written to a socket
CommandsOnWire == {sent[i].frame.call : i \in {k \in 1..Len(sent) : sent[k].frame.type = "call_service"}}

\* high-risk: by domain, action or target, or a set_temperature with a
\* temperature outside 10..30
HighRisk(serviceCall) ==
  \/ RiskyByDomainActionTarget(serviceCall)
  \/ /\ serviceCall.service = <<"set", "_", "temperature">>
     /\ serviceCall.data.hasTemperature
     /\ OutOfBand(serviceCall.data.temperature)

\* the domain of every command on the wire is in allowedDomains and, with a
\* non-empty entity whitelist, every target id it carries is on the whitelist
WireWithinAllowLists ==
  \A serviceCall \in CommandsOnWire :
    /\ serviceCall.domain \in config.allowedDomains
    /\ (config.entityWhitelist # {} /\ Truthy(serviceCall.entity_id))
         => TargetsOf(serviceCall.entity_id) \subseteq config.entityWhitelist

\* C33 as claimed: every call_service frame sent carries a domain of
\* allowedDomains and, with a non-empty entity whitelist, only whitelisted
\* target ids, and while confirmation is required no frame of a high-risk
\* command is sent without confirmed = true.
C33_WireIsAuthorized ==
  /\ WireWithinAllowLists
  /\ \A serviceCall \in CommandsOnWire :
       (config.confirmHighRiskActions /\ HighRisk(serviceCall)) => serviceCall.confirmed

\* C34 as claimed: a validateServiceCall that appends an audit entry with
\* allowed = true, high_risk_confirmed or service_call_validation, returns a
\* verdict with allowed = true; no call records an allowed entry and then
\* returns a denial.
C34_AllowedEntryMeansAllowed ==
  (/\ verdict.asked
   /\ \E k \in 1..Len(verdict.appended) : verdict.appended[k].allowed)
  => verdict.validation.allowed

\* the function results written to the transport for call_id k
ResultsFor(k) == {i \in 1..Len(functionResults) : functionResults[i].call_id = k}

\* the function call was executed successfully: its request to the remote
\* controller was resolved and, for get_state, the entity was among the states
Executed(k) ==
  /\ functionCalls[k].request # 0
  /\ calls[functionCalls[k].request].outcome.kind = "resolved"
  /\ functionCalls[k].found

\* every handled function call has exactly one result on the transport, with
\* success = true if and only if it was executed successfully
OneResultEach ==
  \A k \in 1..Len(functionCalls) :
    functionCalls[k].pc = "done" =>
      /\ Cardinality(ResultsFor(k)) = 1
      /\ \A i \in ResultsFor(k) : functionResults[i].success = Executed(k)

\* C37 as claimed: for every function call handled, exactly one function result
\* is sent back for its call_id, with success = true if the call was executed
\* successfully and success = false otherwise, never two and never none; none
\* is sent before the call is handled.
C37_ExactlyOneResult ==
  /\ OneResultEach
  /\ \A k \in 1..Len(functionCalls) :
       functionCalls[k].pc # "done" => ResultsFor(k) = {}

\* the same with the transport's socket open
C37_WhileTransportOpen == openaiWs = "open" => C37_ExactlyOneResult

\* nothing the application started is left: no server listens, the OpenAI
\* socket is not open or opening, and the bridge has no socket open or opening
Released ==
  /\ ~wyomingListening
  /\ ~httpListening
  /\ openaiWs \notin {"connecting", "open"}
  /\ \A s \in 1..Len(sockets) : sockets[s].state \notin {"connecting", "open"}

\* C38 as claimed: when start() rejects, every server that was listening has
\* been closed and every client that was connected has been disconnected;
\* start() on a running application throws; and shutdown() on an application
\* that is not running closes nothing.
C38_StartCleansUp ==
  [][/\ (startPc' = "rejected" /\ startPc # "rejected") => Released'
     /\ (isRunning /\ startPc' # startPc) => startPc' = "threw"
     /\ (~isRunning /\ shutdownPc # "closing") => shutdownPc' # "closing"]_vars

\* the state of the control API's sessions
SessionState == <<currentSession, vadEnabled>>

\* C39: /start_ptt while a session is active is answered 400 session_active,
\* /start_ptt with a timeout_ms outside 1000..300000 is answered 400
\* invalid_timeout, and /stop_ptt with no active session is answered 400
\* no_active_session, each leaving currentSession and vadEnabled as they were;
\* a /start_ptt answered 200 leaves one active session of mode ptt, and a
\* /stop_ptt answered 200 leaves no session.
C39_ErrorPathsKeepSession ==
  [][/\ response'.status = 400 => SessionState' = SessionState
     /\ \A n \in {999, 300001} :
          StartPtt(NumberMs(n))
            => response'.status = 400 /\ response'.error = "invalid_timeout"
     /\ \A n \in {1000, 300000} :
          (StartPtt(NumberMs(n)) /\ sessionActive(currentSession))
            => response'.status = 400 /\ response'.error = "session_active"
     /\ (StartPtt(NoTimeout) /\ sessionActive(currentSession))
            => response'.status = 400 /\ response'.error = "session_active"
     /\ (StopPtt /\ ~sessionActive(currentSession))
            => response'.status = 400 /\ response'.error = "no_active_session"
     /\ (response'.route = "start_ptt" /\ response'.status = 200)
            => /\ ~sessionActive(currentSession)
               /\ currentSession'.present
               /\ currentSession'.mode = "ptt"
               /\ currentSession'.status = "active"
               /\ currentSession'.sessionId \notin {0, currentSession.sessionId}
     /\ (response'.route = "stop_ptt" /\ response'.status = 200)
            => sessionActive(currentSession) /\ ~currentSession'.present]_vars

\* after a session was started, /start_ptt with a timeout_ms out of range was
\* refused while no session was active, and there is still none
C39_Witness ==
  /\ response.route = "start_ptt"
  /\ response.error = "invalid_timeout"
  /\ ~currentSession.present
  /\ sessionsCreated > 0

\* C40 as claimed: vad_enabled = true implies that a current session exists,
\* and a session of mode vad exists only while vad_enabled is true.
C40_VadSessionConsistent ==
  /\ vadEnabled => currentSession.present
  /\ (currentSession.present /\ currentSession.mode = "vad") => vadEnabled

\* the second half of C40: a session of mode vad exists only with VAD on
VadSessionOnlyWhileEnabled ==
  (currentSession.present /\ currentSession.mode = "vad") => vadEnabled

====
